---- MODULE Spec2Model ----
(***************************************************************************)
(* Multi-bot music cluster: the command lock table, the guild assignment   *)
(* store, the per-bot players and the routing decision shouldHandleCommand *)
(* that every bot evaluates for every inbound command.                     *)
(*                                                                         *)
(* Bots are identified by the number n of their id "bot-<n>"; bot 1 is the *)
(* main bot.  Time is Date.now() in milliseconds.                          *)
(***************************************************************************)
EXTENDS Integers, Sequences, FiniteSets, TLC

VARIABLES
    now,            \* Date.now()
    commandLocks,   \* Map<guildId, {botId, timestamp}>
    assignments,    \* GuildAssignment collection, keyed by _id (guildId)
    players,        \* players[b]: client.lavalink.players of bot b, guildId -> voiceChannelId
    pendingVoice,   \* pendingVoice[b]: voiceStateUpdate about bot b itself not yet handled
    cmd,            \* the inbound command being delivered to every bot, or NoCmd
    pc,             \* pc[b]: where bot b stands in handling cmd
    events,         \* session teardowns and operator interventions so far
    delivered,      \* history: the state cmd was delivered in, while only the bots have acted since
    lockLog,        \* history: the calls made on the lock table (lock specification only)
    ready,          \* ready[b]: client.isReady() of bot b
    playerCount,    \* playerCount[b]: client.playerCount, the player count cached at the last status update
    options,        \* LoadBalancer.options: strategy and maxPlayersPerBot
    callLog,        \* history: the last call made on the load balancer or on the assignment store
    botStatus       \* BotStatus collection, keyed by _id (bot id): status and lastHeartbeat

balVars == <<ready, playerCount, options, callLog, botStatus>>

vars == <<now, commandLocks, assignments, players, pendingVoice, cmd, pc,
          events, delivered, lockLog, balVars>>

----------------------------------------------------------------------------
(* Bounds and inputs *)

MaxNow == 20002

MaxLockNow == 20002

MaxEvents == 1

MaxHealthNow == 90000

\* the largest n of a configured BOT<n>_TOKEN when the order of bot ids is compared
MaxBotNumber == 12

ClockSteps == {10001}

LockClockSteps == {10000, 10001}

Bots == {1, 2, 3}

Guilds == {"g1"}

LockGuilds == {"g1", "g2"}

Channels == {"vc1", "vc2"}

NoChannel == "null"

NoBot == 0

NoCmd == [name |-> "none"]

NoRow == [found |-> FALSE]

NoSnapshot == [taken |-> FALSE]

NoCall == [op |-> "none"]

CommandNames == {"play", "stop", "help"}

----------------------------------------------------------------------------
(* Program constants *)

LOCK_TIMEOUT == 10000

\* options.heartbeatInterval || 30000
heartbeatInterval == 30000

\* options.staleThreshold || 60000
staleThreshold == 60000

\* options.maxPlayersPerBot || 100
maxPlayersPerBot == 100

MUSIC_COMMANDS == {"play", "stop"}

isMainBot(b) == b = 1

----------------------------------------------------------------------------
(* Map<K, V> as a function on the set of keys present *)

MapHas(m, k) == k \in DOMAIN m

MapSet(m, k, v) == [x \in (DOMAIN m) \cup {k} |-> IF x = k THEN v ELSE m[x]]

MapDelete(m, k) == [x \in (DOMAIN m) \ {k} |-> m[x]]

EmptyMap == [x \in {} |-> NoBot]

----------------------------------------------------------------------------
(* Lock table: each operation returns the table it leaves and its result *)

\* fault: a lock counts as expired already at the timeout (>= for >)
Expired_atTimeout(entry, t) == t - entry.timestamp >= LOCK_TIMEOUT

Expired(entry, t) == t - entry.timestamp > LOCK_TIMEOUT

\* fault: the existing lock is not looked at, the caller always takes the key
acquireCommandLock_takesOver(locks, guildId, botId, t) ==
    [locks |-> MapSet(locks, guildId, [botId |-> botId, timestamp |-> t]), ret |-> TRUE]

\* fault: the owner's own acquisition stamps the entry anew
acquireCommandLock_refreshes(locks, guildId, botId, t) ==
    IF MapHas(locks, guildId) /\ ~Expired(locks[guildId], t) /\ locks[guildId].botId # botId
    THEN [locks |-> locks, ret |-> FALSE]
    ELSE [locks |-> MapSet(MapDelete(locks, guildId), guildId,
                           [botId |-> botId, timestamp |-> t]),
          ret |-> TRUE]

acquireCommandLock(locks, guildId, botId, t) ==
    IF MapHas(locks, guildId) /\ ~Expired(locks[guildId], t)
    THEN [locks |-> locks, ret |-> locks[guildId].botId = botId]
    ELSE [locks |-> MapSet(MapDelete(locks, guildId), guildId,
                           [botId |-> botId, timestamp |-> t]),
          ret |-> TRUE]

\* fault: the owner is not compared, any caller removes the entry
releaseCommandLock_anyCaller(locks, guildId, botId) == MapDelete(locks, guildId)

releaseCommandLock(locks, guildId, botId) ==
    IF MapHas(locks, guildId) /\ locks[guildId].botId = botId
    THEN MapDelete(locks, guildId)
    ELSE locks

\* fault: an expired entry is reported but not removed
hasCommandLock_keepsExpired(locks, guildId, botId, t) ==
    [locks |-> locks,
     ret |-> /\ MapHas(locks, guildId)
             /\ ~Expired(locks[guildId], t)
             /\ locks[guildId].botId = botId]

hasCommandLock(locks, guildId, botId, t) ==
    IF ~MapHas(locks, guildId)
    THEN [locks |-> locks, ret |-> FALSE]
    ELSE IF Expired(locks[guildId], t)
         THEN [locks |-> MapDelete(locks, guildId), ret |-> FALSE]
         ELSE [locks |-> locks, ret |-> locks[guildId].botId = botId]

----------------------------------------------------------------------------
(* GuildAssignment: statics take and return the collection, methods the row *)

NewRow(botId, reason, t) ==
    [assignedBotId |-> botId, isActive |-> FALSE, voiceChannelId |-> NoChannel,
     assignmentReason |-> reason, previousBotId |-> NoBot, lastActivity |-> t]

findById(store, guildId) ==
    IF MapHas(store, guildId)
    THEN [found |-> TRUE, isActive |-> store[guildId].isActive,
          assignedBotId |-> store[guildId].assignedBotId]
    ELSE NoRow

\* getOrCreateAssignment storing the reason on a row that exists
getOrCreateAssignment_storesReason(store, guildId, botId, reason, t) ==
    IF MapHas(store, guildId)
    THEN [store EXCEPT ![guildId].assignmentReason = reason]
    ELSE MapSet(store, guildId, NewRow(botId, reason, t))

\* getOrCreateAssignment as an upsert of the owner
getOrCreateAssignment_upsert(store, guildId, botId, reason, t) ==
    IF MapHas(store, guildId)
    THEN [store EXCEPT ![guildId].assignedBotId = botId]
    ELSE MapSet(store, guildId, NewRow(botId, reason, t))

getOrCreateAssignment(store, guildId, botId, reason, t) ==
    IF MapHas(store, guildId)
    THEN store
    ELSE MapSet(store, guildId, NewRow(botId, reason, t))

\* reassignGuild replacing the row by a new one
reassignGuild_replaces(store, guildId, newBotId, reason, t) ==
    MapSet(store, guildId, NewRow(newBotId, reason, t))

reassignGuild(store, guildId, newBotId, reason, t) ==
    IF MapHas(store, guildId)
    THEN LET row == store[guildId]
         IN  [store EXCEPT ![guildId] =
                [row EXCEPT !.previousBotId = row.assignedBotId,
                            !.assignedBotId = newBotId,
                            !.assignmentReason = reason]]
    ELSE MapSet(store, guildId, NewRow(newBotId, reason, t))

activate(row, voiceChannelId, t) ==
    [row EXCEPT !.isActive = TRUE, !.voiceChannelId = voiceChannelId, !.lastActivity = t]

deactivate(row, t) ==
    [row EXCEPT !.isActive = FALSE, !.voiceChannelId = NoChannel, !.lastActivity = t]

touch(row, t) ==
    [row EXCEPT !.lastActivity = t]

\* the sweep with its date comparison reversed
releaseInactiveAssignments_reversed(store, inactiveThreshold, t) ==
    [g \in DOMAIN store |->
        IF store[g].isActive /\ store[g].lastActivity > t - inactiveThreshold
        THEN [store[g] EXCEPT !.isActive = FALSE]
        ELSE store[g]]

\* updateMany({isActive: true, lastActivity: {$lt: now - threshold}}, {$set: {isActive: false}})
releaseInactiveAssignments(store, inactiveThreshold, t) ==
    [g \in DOMAIN store |->
        IF store[g].isActive /\ store[g].lastActivity < t - inactiveThreshold
        THEN [store[g] EXCEPT !.isActive = FALSE]
        ELSE store[g]]

\* a release that deletes the row
DeactivateIfFound_deletes(store, guildId, t) ==
    MapDelete(store, guildId)

\* const a = await findById(guildId); if (a) await a.deactivate()
DeactivateIfFound(store, guildId, t) ==
    IF MapHas(store, guildId)
    THEN [store EXCEPT ![guildId] = deactivate(@, t)]
    ELSE store

----------------------------------------------------------------------------
(* Peer ordering: failoverBots.sort((a, b) => a.id.localeCompare(b.id)) on  *)
(* ids "bot-<n>": the common prefix ties, the decimal digits decide.        *)

RECURSIVE DecDigits(_)
DecDigits(n) == IF n < 10 THEN <<n>> ELSE Append(DecDigits(n \div 10), n % 10)

RECURSIVE SeqLess(_, _)
SeqLess(s, u) ==
    IF s = <<>> THEN u # <<>>
    ELSE IF u = <<>> THEN FALSE
    ELSE IF Head(s) # Head(u) THEN Head(s) < Head(u)
    ELSE SeqLess(Tail(s), Tail(u))

localeCompareLess(a, b) == SeqLess(DecDigits(a), DecDigits(b))

----------------------------------------------------------------------------
(* shouldHandleCommand(client, guildId, isMusicCommand, userVoiceChannelId) *)
(* It runs synchronously up to its await of findById, and again from the    *)
(* value findById returned to its return.  out is "true", "false" or, when  *)
(* the evaluation reaches the await, "await".                               *)

HasPlayer(b, guildId) == MapHas(players[b], guildId)

\* fault: the comparison of the two channels is inverted
BusyElsewhere_inverted(b, guildId, vc) ==
    vc # NoChannel /\ HasPlayer(b, guildId) /\ players[b][guildId] = vc

BusyElsewhere(b, guildId, vc) ==
    vc # NoChannel /\ HasPlayer(b, guildId) /\ players[b][guildId] # vc

\* fault: the main bot checks its own player for every command, music or not
MainSync_busyFirst(b, guildId, isMusic, vc) ==
    IF BusyElsewhere(b, guildId, vc) THEN "false"
    ELSE IF isMusic THEN "await"
    ELSE "true"

\* lines 35-51: the main bot up to its findById
MainSync(b, guildId, isMusic, vc) ==
    IF isMusic /\ BusyElsewhere(b, guildId, vc) THEN "false"
    ELSE IF isMusic THEN "await"
    ELSE "true"

\* fault: the main bot defers to any other owner on record, active or not
MainResume_ignoresActive(b, guildId, row, locks, t) ==
    IF row.found /\ row.assignedBotId # b
    THEN [locks |-> locks, out |-> "false"]
    ELSE [locks |-> acquireCommandLock(locks, guildId, b, t).locks, out |-> "true"]

\* lines 51-63: the main bot from the assignment it read
MainResume(b, guildId, row, locks, t) ==
    IF row.found /\ row.isActive /\ row.assignedBotId # b
    THEN [locks |-> locks, out |-> "false"]
    ELSE [locks |-> acquireCommandLock(locks, guildId, b, t).locks, out |-> "true"]

\* fault: a failover bot with a player in the requester's channel does not return
\* true there but goes on to the assignment and takeover checks
FailoverSync_noContinuity(b, guildId, isMusic, vc, locks, t) ==
    IF ~isMusic THEN [locks |-> locks, out |-> "false"]
    ELSE
    LET has == hasCommandLock(locks, guildId, b, t)
        acq == acquireCommandLock(has.locks, guildId, b, t)
        probed == IF has.ret THEN has.locks
                  ELSE IF acq.ret THEN releaseCommandLock(acq.locks, guildId, b)
                  ELSE acq.locks
    IN  IF ~has.ret /\ ~acq.ret THEN [locks |-> probed, out |-> "false"]
        ELSE IF vc # NoChannel /\ HasPlayer(b, guildId) /\ players[b][guildId] # vc
        THEN [locks |-> probed, out |-> "false"]
        ELSE [locks |-> probed, out |-> "await"]

\* fault: the probing acquire is not followed by its release
FailoverSync_keepsProbe(b, guildId, isMusic, vc, locks, t) ==
    IF ~isMusic THEN [locks |-> locks, out |-> "false"]
    ELSE
    LET has == hasCommandLock(locks, guildId, b, t)
        acq == acquireCommandLock(has.locks, guildId, b, t)
        probed == IF has.ret THEN has.locks ELSE acq.locks
    IN  IF ~has.ret /\ ~acq.ret THEN [locks |-> probed, out |-> "false"]
        ELSE IF vc # NoChannel /\ HasPlayer(b, guildId)
        THEN IF players[b][guildId] # vc
             THEN [locks |-> probed, out |-> "false"]
             ELSE [locks |-> acquireCommandLock(probed, guildId, b, t).locks, out |-> "true"]
        ELSE [locks |-> probed, out |-> "await"]

\* lines 71-108: a failover bot up to its findById
FailoverSync(b, guildId, isMusic, vc, locks, t) ==
    IF ~isMusic THEN [locks |-> locks, out |-> "false"]
    ELSE
    LET has == hasCommandLock(locks, guildId, b, t)
        acq == acquireCommandLock(has.locks, guildId, b, t)
        probed == IF has.ret THEN has.locks
                  ELSE IF acq.ret THEN releaseCommandLock(acq.locks, guildId, b)
                  ELSE acq.locks
    IN  IF ~has.ret /\ ~acq.ret THEN [locks |-> probed, out |-> "false"]
        ELSE IF vc # NoChannel /\ HasPlayer(b, guildId)
        THEN IF players[b][guildId] # vc
             THEN [locks |-> probed, out |-> "false"]
             ELSE [locks |-> acquireCommandLock(probed, guildId, b, t).locks, out |-> "true"]
        ELSE [locks |-> probed, out |-> "await"]

MainBots == {m \in Bots : isMainBot(m)}

FailoverBots == {f \in Bots : ~isMainBot(f)}

\* isAvailable: no player, or a player in the requester's channel
IsAvailable(f, guildId, vc) ==
    ~HasPlayer(f, guildId) \/ players[f][guildId] = vc

\* fault: the list is sorted descending, the available bot with the greatest id is taken
FirstAvailable_descending(guildId, vc) ==
    LET avail == {f \in FailoverBots : IsAvailable(f, guildId, vc)}
    IN  IF avail = {} THEN NoBot
        ELSE CHOOSE f \in avail : \A o \in avail \ {f} : localeCompareLess(o, f)

\* the first available entry of the sorted failoverBots, NoBot when there is none
FirstAvailable(guildId, vc) ==
    LET avail == {f \in FailoverBots : IsAvailable(f, guildId, vc)}
    IN  IF avail = {} THEN NoBot
        ELSE CHOOSE f \in avail : \A o \in avail \ {f} : localeCompareLess(f, o)

\* fault: the assignment is not consulted, only the takeover check decides
FailoverResume_noAssignmentCheck(b, guildId, vc, row, locks, t) ==
    IF vc = NoChannel THEN [locks |-> locks, out |-> "false"]
    ELSE IF MainBots = {} THEN [locks |-> locks, out |-> "false"]
    ELSE
    LET main == CHOOSE m \in MainBots : TRUE
    IN  IF ~HasPlayer(main, guildId) THEN [locks |-> locks, out |-> "false"]
        ELSE IF players[main][guildId] = vc THEN [locks |-> locks, out |-> "false"]
        ELSE IF FirstAvailable(guildId, vc) = b
        THEN LET got == acquireCommandLock(locks, guildId, b, t)
             IN  [locks |-> got.locks, out |-> IF got.ret THEN "true" ELSE "false"]
        ELSE [locks |-> locks, out |-> "false"]

\* lines 108-191: a failover bot from the assignment it read
FailoverResume(b, guildId, vc, row, locks, t) ==
    IF row.found /\ row.isActive /\ row.assignedBotId = b
    THEN [locks |-> acquireCommandLock(locks, guildId, b, t).locks, out |-> "true"]
    ELSE IF vc = NoChannel THEN [locks |-> locks, out |-> "false"]
    ELSE IF MainBots = {} THEN [locks |-> locks, out |-> "false"]
    ELSE
    LET main == CHOOSE m \in MainBots : TRUE
    IN  IF ~HasPlayer(main, guildId) THEN [locks |-> locks, out |-> "false"]
        ELSE IF players[main][guildId] = vc THEN [locks |-> locks, out |-> "false"]
        ELSE IF FirstAvailable(guildId, vc) = b
        THEN LET got == acquireCommandLock(locks, guildId, b, t)
             IN  [locks |-> got.locks, out |-> IF got.ret THEN "true" ELSE "false"]
        ELSE [locks |-> locks, out |-> "false"]

----------------------------------------------------------------------------
(* The cluster: one inbound command at a time is delivered to every bot;    *)
(* each bot evaluates shouldHandleCommand and, when it returns true, runs   *)
(* the command.                                                             *)

IsMusic(c) == c.name \in MUSIC_COMMANDS

Handled == {b \in Bots : pc[b] \in {"true", "done"}}

\* new LoadBalancer(botCluster, {}): the priority strategy; the bots have logged in
\* (initializeBot) and no status update has cached a player count yet
DefaultOptions ==
    [strategy |-> "priority", maxPlayersPerBot |-> maxPlayersPerBot,
     staleThreshold |-> staleThreshold]

Init ==
    /\ now = 0
    /\ commandLocks = EmptyMap
    /\ assignments = EmptyMap
    /\ players = [b \in Bots |-> EmptyMap]
    /\ pendingVoice = [b \in Bots |-> "none"]
    /\ cmd = NoCmd
    /\ pc = [b \in Bots |-> "idle"]
    /\ events = 0
    /\ delivered = NoSnapshot
    /\ lockLog = [last |-> NoCall, win |-> EmptyMap]
    /\ ready = [b \in Bots |-> TRUE]
    /\ playerCount = [b \in Bots |-> 0]
    /\ options = DefaultOptions
    /\ callLog = NoCall
    /\ botStatus = EmptyMap

\* Date.now() advances
Advance(steps, bound) ==
    \E d \in steps :
        /\ now + d <= bound
        /\ now' = now + d

Tick ==
    /\ Advance(ClockSteps, MaxNow)
    /\ delivered' = NoSnapshot
    /\ UNCHANGED <<commandLocks, assignments, players, pendingVoice, cmd, pc, events, lockLog, balVars>>

\* the gateway broadcasts a command: interactionCreate / messageCreate on every bot
Deliver ==
    \E name \in CommandNames, g \in Guilds, vc \in Channels \cup {NoChannel} :
        /\ cmd = NoCmd
        /\ cmd' = [name |-> name, guildId |-> g, userVoiceChannelId |-> vc]
        /\ pc' = [b \in Bots |-> "start"]
        /\ delivered' = [taken |-> TRUE, players |-> players, assignments |-> assignments,
                         commandLocks |-> commandLocks, now |-> now]
        /\ UNCHANGED <<now, commandLocks, assignments, players, pendingVoice, events, lockLog, balVars>>

\* shouldHandleCommand from its entry to its first await or return
EvalSync(b) ==
    /\ pc[b] = "start"
    /\ IF isMainBot(b)
       THEN /\ pc' = [pc EXCEPT ![b] =
                        MainSync(b, cmd.guildId, IsMusic(cmd), cmd.userVoiceChannelId)]
            /\ UNCHANGED commandLocks
       ELSE LET r == FailoverSync(b, cmd.guildId, IsMusic(cmd), cmd.userVoiceChannelId,
                                  commandLocks, now)
            IN  /\ pc' = [pc EXCEPT ![b] = r.out]
                /\ commandLocks' = r.locks
    /\ UNCHANGED <<now, assignments, players, pendingVoice, cmd, events, delivered, lockLog, balVars>>

\* the store answers findById(guildId): shouldHandleCommand from there to its return
EvalResume(b) ==
    /\ pc[b] = "await"
    /\ LET row == findById(assignments, cmd.guildId)
           r == IF isMainBot(b)
                THEN MainResume(b, cmd.guildId, row, commandLocks, now)
                ELSE FailoverResume(b, cmd.guildId, cmd.userVoiceChannelId, row,
                                    commandLocks, now)
       IN  /\ pc' = [pc EXCEPT ![b] = r.out]
           /\ commandLocks' = r.locks
    /\ UNCHANGED <<now, assignments, players, pendingVoice, cmd, events, delivered, lockLog, balVars>>

\* Play.run: create the player in the requester's channel, getOrCreateAssignment, activate
PlayRun(b) ==
    LET g == cmd.guildId
        vc == cmd.userVoiceChannelId
    IN  IF vc # NoChannel /\ ~HasPlayer(b, g)
        THEN /\ players' = [players EXCEPT ![b] = MapSet(@, g, vc)]
             /\ assignments' =
                  [getOrCreateAssignment(assignments, g, b, "auto", now)
                      EXCEPT ![g] = activate(@, vc, now)]
             /\ UNCHANGED <<pendingVoice, events>>
        ELSE UNCHANGED <<players, assignments, pendingVoice, events>>

\* Stop.run: destroy the player the requester shares a channel with, deactivate.
\* player.destroy() leaves voice: the gateway will report the bot's own disconnect.
StopRun(b) ==
    LET g == cmd.guildId
        vc == cmd.userVoiceChannelId
    IN  IF vc # NoChannel /\ HasPlayer(b, g) /\ players[b][g] = vc
        THEN /\ events < MaxEvents
             /\ events' = events + 1
             /\ players' = [players EXCEPT ![b] = MapDelete(@, g)]
             /\ pendingVoice' = [pendingVoice EXCEPT ![b] = "leave"]
             /\ assignments' = DeactivateIfFound(assignments, g, now)
        ELSE UNCHANGED <<players, assignments, pendingVoice, events>>

\* cmd.run(ctx, ctx.args) on a bot whose shouldHandleCommand returned true
Run(b) ==
    /\ pc[b] = "true"
    /\ pc' = [pc EXCEPT ![b] = "done"]
    /\ CASE cmd.name = "play" -> PlayRun(b)
         [] cmd.name = "stop" -> StopRun(b)
         [] OTHER -> UNCHANGED <<players, assignments, pendingVoice, events>>
    /\ UNCHANGED <<now, commandLocks, cmd, delivered, lockLog, balVars>>

\* every bot has finished with the command
Retire ==
    /\ cmd # NoCmd
    /\ \A b \in Bots : pc[b] \in {"false", "done", "threw"}
    /\ cmd' = NoCmd
    /\ pc' = [b \in Bots |-> "idle"]
    /\ delivered' = NoSnapshot
    /\ UNCHANGED <<now, commandLocks, assignments, players, pendingVoice, events, lockLog, balVars>>

----------------------------------------------------------------------------
(* Session events outside command routing *)

\* voiceStateUpdate, _handleBotVoiceChange, oldState.channelId && !newState.channelId:
\* the bot left voice, after its player was destroyed or because somebody disconnected
\* it.  With a player present: reconnect in 24/7 mode, else _destroyPlayer; then
\* _deactivateAssignment in every case.
BotDisconnected(b) ==
    \E g \in Guilds, is247 \in BOOLEAN, reconnects \in BOOLEAN :
        /\ \/ pendingVoice[b] = "leave" /\ UNCHANGED events
           \/ /\ pendingVoice[b] = "none"
              /\ HasPlayer(b, g)
              /\ events < MaxEvents
              /\ events' = events + 1
        /\ IF HasPlayer(b, g) /\ is247 /\ reconnects
           THEN /\ pendingVoice' = [pendingVoice EXCEPT ![b] = players[b][g]]
                /\ UNCHANGED players
           ELSE /\ pendingVoice' = [pendingVoice EXCEPT ![b] = "none"]
                /\ players' = [players EXCEPT ![b] = MapDelete(@, g)]
        /\ assignments' = DeactivateIfFound(assignments, g, now)
        /\ delivered' = NoSnapshot
        /\ UNCHANGED <<now, commandLocks, cmd, pc, lockLog, balVars>>

\* _handleBotVoiceChange, !oldState.channelId && newState.channelId
BotJoined(b) ==
    \E g \in Guilds :
        /\ pendingVoice[b] \in Channels
        /\ pendingVoice' = [pendingVoice EXCEPT ![b] = "none"]
        /\ assignments' = IF MapHas(assignments, g)
                          THEN [assignments EXCEPT ![g] = activate(@, pendingVoice[b], now)]
                          ELSE assignments
        /\ delivered' = NoSnapshot
        /\ UNCHANGED <<now, commandLocks, players, cmd, pc, events, lockLog, balVars>>

\* _handleBotVoiceChange, the bot was moved to a different channel
BotMoved(b) ==
    \E g \in Guilds, c \in Channels :
        /\ pendingVoice[b] = "none"
        /\ HasPlayer(b, g)
        /\ players[b][g] # c
        /\ events < MaxEvents
        /\ events' = events + 1
        /\ players' = [players EXCEPT ![b][g] = c]
        /\ assignments' = IF MapHas(assignments, g)
                          THEN [assignments EXCEPT ![g].voiceChannelId = c]
                          ELSE assignments
        /\ delivered' = NoSnapshot
        /\ UNCHANGED <<now, commandLocks, pendingVoice, cmd, pc, lockLog, balVars>>

\* QueueEnd.run, the disconnect timeout: destroy, markDestroyed, deactivate
QueueEndTimeout(b) ==
    \E g \in Guilds :
        /\ HasPlayer(b, g)
        /\ events < MaxEvents
        /\ events' = events + 1
        /\ players' = [players EXCEPT ![b] = MapDelete(@, g)]
        /\ pendingVoice' = [pendingVoice EXCEPT ![b] = "leave"]
        /\ assignments' = DeactivateIfFound(assignments, g, now)
        /\ delivered' = NoSnapshot
        /\ UNCHANGED <<now, commandLocks, cmd, pc, lockLog, balVars>>

\* _handleMemberLeave, the alone-in-channel timeout: _destroyPlayer only
AloneTimeout(b) ==
    \E g \in Guilds :
        /\ HasPlayer(b, g)
        /\ events < MaxEvents
        /\ events' = events + 1
        /\ players' = [players EXCEPT ![b] = MapDelete(@, g)]
        /\ pendingVoice' = [pendingVoice EXCEPT ![b] = "leave"]
        /\ delivered' = NoSnapshot
        /\ UNCHANGED <<now, commandLocks, assignments, cmd, pc, lockLog, balVars>>

\* forceAssign without the isReady test
forceAssign_skipsReadyCheck(guildId, targetBotId) ==
    IF targetBotId \notin Bots
    THEN [success |-> FALSE, store |-> assignments]
    ELSE [success |-> TRUE,
          store |-> reassignGuild(assignments, guildId, targetBotId, "manual", now)]

\* LoadBalancer.forceAssign(guildId, targetBotId)
forceAssign(guildId, targetBotId) ==
    IF targetBotId \notin Bots
    THEN [success |-> FALSE, store |-> assignments]
    ELSE IF ~ready[targetBotId]
    THEN [success |-> FALSE, store |-> assignments]
    ELSE [success |-> TRUE,
          store |-> reassignGuild(assignments, guildId, targetBotId, "manual", now)]

ForceAssign ==
    \E g \in Guilds, target \in Bots \cup {NoBot} :
        /\ events < MaxEvents
        /\ events' = events + 1
        /\ assignments' = forceAssign(g, target).store
        /\ delivered' = NoSnapshot
        /\ UNCHANGED <<now, commandLocks, players, pendingVoice, cmd, pc, lockLog, balVars>>

Next ==
    \/ Tick
    \/ Deliver
    \/ \E b \in Bots : EvalSync(b)
    \/ \E b \in Bots : EvalResume(b)
    \/ \E b \in Bots : Run(b)
    \/ Retire
    \/ \E b \in Bots : BotDisconnected(b)
    \/ \E b \in Bots : BotJoined(b)
    \/ \E b \in Bots : BotMoved(b)
    \/ \E b \in Bots : QueueEndTimeout(b)
    \/ \E b \in Bots : AloneTimeout(b)
    \/ ForceAssign

Spec == Init /\ [][Next]_vars

----------------------------------------------------------------------------
(* The lock table on its own: any bot calls any of its three operations on  *)
(* any key at any time.  lockLog.last is the call just made; lockLog.win[k] *)
(* is the acquisition window of key k: it opens with a successful acquire   *)
(* made while no window is running, runs for LOCK_TIMEOUT, collects the     *)
(* bots whose acquire returned true (ok) and false (fail) meanwhile, and is *)
(* dropped when a release removes the entry.                                *)

WindowOpen(win, guildId, t) ==
    MapHas(win, guildId) /\ t - win[guildId].start <= LOCK_TIMEOUT

LogAcquire(win, guildId, botId, ret, t) ==
    IF WindowOpen(win, guildId, t)
    THEN [win EXCEPT ![guildId].ok = IF ret THEN @ \cup {botId} ELSE @,
                     ![guildId].fail = IF ret THEN @ ELSE @ \cup {botId}]
    ELSE IF ret
    THEN MapSet(win, guildId, [start |-> t, first |-> botId, ok |-> {botId}, fail |-> {}])
    ELSE MapDelete(win, guildId)

Call(op, guildId, botId, ret) ==
    [op |-> op, guildId |-> guildId, botId |-> botId, ret |-> ret,
     before |-> commandLocks, at |-> now]

LockAcquire(guildId, botId) ==
    LET r == acquireCommandLock(commandLocks, guildId, botId, now)
    IN  /\ commandLocks' = r.locks
        /\ lockLog' = [last |-> Call("acquire", guildId, botId, r.ret),
                       win |-> LogAcquire(lockLog.win, guildId, botId, r.ret, now)]
        /\ UNCHANGED <<now, assignments, players, pendingVoice, cmd, pc, events, delivered, balVars>>

LockRelease(guildId, botId) ==
    LET after == releaseCommandLock(commandLocks, guildId, botId)
    IN  /\ commandLocks' = after
        /\ lockLog' = [last |-> Call("release", guildId, botId, FALSE),
                       win |-> IF after # commandLocks
                               THEN MapDelete(lockLog.win, guildId)
                               ELSE lockLog.win]
        /\ UNCHANGED <<now, assignments, players, pendingVoice, cmd, pc, events, delivered, balVars>>

LockHas(guildId, botId) ==
    LET r == hasCommandLock(commandLocks, guildId, botId, now)
    IN  /\ commandLocks' = r.locks
        /\ lockLog' = [lockLog EXCEPT !.last = Call("has", guildId, botId, r.ret)]
        /\ UNCHANGED <<now, assignments, players, pendingVoice, cmd, pc, events, delivered, balVars>>

LockTick ==
    /\ Advance(LockClockSteps, MaxLockNow)
    /\ UNCHANGED <<commandLocks, assignments, players, pendingVoice, cmd, pc, events,
                   delivered, lockLog, balVars>>

LockNext ==
    \/ \E g \in LockGuilds, b \in Bots : LockAcquire(g, b)
    \/ \E g \in LockGuilds, b \in Bots : LockRelease(g, b)
    \/ \E g \in LockGuilds, b \in Bots : LockHas(g, b)
    \/ LockTick

SpecLock == Init /\ [][LockNext]_vars

----------------------------------------------------------------------------
(* Properties of the lock table (SpecLock) *)

\* C2: within the lock timeout of the first successful acquire on a key, and while
\* nobody releases, that first caller is the only bot whose acquire returns true and
\* every other bot's acquire returns false; and an unexpired lock in the table is
\* always the one of that single winner, so a key never has two valid locks.
C2_OneWinnerPerWindow ==
    \A g \in LockGuilds :
        /\ MapHas(lockLog.win, g) =>
              /\ lockLog.win[g].ok = {lockLog.win[g].first}
              /\ lockLog.win[g].fail \subseteq Bots \ {lockLog.win[g].first}
        /\ (MapHas(commandLocks, g) /\ now - commandLocks[g].timestamp <= LOCK_TIMEOUT) =>
              /\ MapHas(lockLog.win, g)
              /\ commandLocks[g] = [botId |-> lockLog.win[g].first,
                                    timestamp |-> lockLog.win[g].start]

\* every bot has called acquire within one window: one returned true, all others false
C2_AllPeersCalled ==
    \E g \in LockGuilds :
        /\ WindowOpen(lockLog.win, g, now)
        /\ Cardinality(lockLog.win[g].ok) = 1
        /\ lockLog.win[g].fail = Bots \ lockLog.win[g].ok
        /\ Cardinality(lockLog.win[g].fail) >= 2

\* C4: an acquire by a bot other than the owner of the entry returns true exactly when
\* now - timestamp > 10000 and then leaves the entry {caller, now}; while
\* now - timestamp <= 10000 it returns false and leaves the table as it was.
C4_TakeoverOnlyAfterTimeout ==
    LET c == lockLog.last
    IN  (/\ c.op = "acquire"
         /\ MapHas(c.before, c.guildId)
         /\ c.before[c.guildId].botId # c.botId) =>
            IF c.at - c.before[c.guildId].timestamp > 10000
            THEN /\ c.ret
                 /\ commandLocks = [c.before EXCEPT ![c.guildId] =
                                       [botId |-> c.botId, timestamp |-> c.at]]
            ELSE /\ ~c.ret
                 /\ commandLocks = c.before

\* a bot took over another bot's lock one millisecond past the timeout, unreleased
C4_TookOverExpired ==
    LET c == lockLog.last
    IN  /\ c.op = "acquire"
        /\ MapHas(c.before, c.guildId)
        /\ c.before[c.guildId].botId # c.botId
        /\ c.at - c.before[c.guildId].timestamp = 10001
        /\ c.ret
        /\ commandLocks[c.guildId].botId = c.botId

\* C5: release(key, bot) removes the entry of key only when bot owns it; when another
\* bot owns it or there is no entry, the table is left as it was.
C5_ReleaseOnlyByOwner ==
    LET c == lockLog.last
    IN  c.op = "release" =>
            IF MapHas(c.before, c.guildId) /\ c.before[c.guildId].botId = c.botId
            THEN commandLocks = [k \in DOMAIN c.before \ {c.guildId} |-> c.before[k]]
            ELSE commandLocks = c.before

\* a bot that lost the key to its current owner released it: nothing changed
C5_ReleasedByFormerOwner ==
    LET c == lockLog.last
    IN  /\ c.op = "release"
        /\ MapHas(c.before, c.guildId)
        /\ c.before[c.guildId].botId # c.botId
        /\ MapHas(lockLog.win, c.guildId)
        /\ c.botId \in lockLog.win[c.guildId].fail
        /\ commandLocks = c.before

----------------------------------------------------------------------------
(* Properties of command routing (Spec) *)

\* bot b is the owner of an unexpired lock for the key
Owns(locks, guildId, b, t) ==
    /\ MapHas(locks, guildId)
    /\ locks[guildId].botId = b
    /\ t - locks[guildId].timestamp <= LOCK_TIMEOUT

\* a bot other than b is the owner of an unexpired lock for the key
HeldByOther(locks, guildId, b, t) ==
    /\ MapHas(locks, guildId)
    /\ locks[guildId].botId # b
    /\ t - locks[guildId].timestamp <= LOCK_TIMEOUT

\* the stored assignment of the key is active and owned by bot b
ActiveOwnedBy(store, guildId, b) ==
    /\ MapHas(store, guildId)
    /\ store[guildId].isActive
    /\ store[guildId].assignedBotId = b

\* the stored assignment of the key is active and owned by a bot other than b
ActiveOwnedByOther(store, guildId, b) ==
    /\ MapHas(store, guildId)
    /\ store[guildId].isActive
    /\ store[guildId].assignedBotId # b

\* C1: for one music command delivered to every bot, whatever the interleaving of the
\* bots' evaluations (nothing but the bots acts between delivery and the last return),
\* at most one bot returns true.
C1_AtMostOneHandles ==
    (IsMusic(cmd) /\ delivered.taken) => Cardinality(Handled) <= 1

\* C3: whenever a bot, main or failover, returns true for a music command, it is at
\* that moment the owner of an unexpired lock for the guild.
C3_TrueOnlyWithLock ==
    [][\A b \in Bots :
          (IsMusic(cmd) /\ pc[b] \in {"start", "await"} /\ pc'[b] = "true")
              => Owns(commandLocks', cmd.guildId, b, now)]_vars

\* C7: an assignment with isActive = true has a player for its guild on the bot
\* recorded as assignedBotId.
C7_ActiveHasSessionOnOwner ==
    \A g \in DOMAIN assignments :
        assignments[g].isActive => HasPlayer(assignments[g].assignedBotId, g)

\* The failover case as cmd was delivered: the main bot has a player for the guild in
\* a channel other than the requester's and at least two failover bots are available
\* (no player for the guild, or a player in the requester's channel).
AvailableAtDelivery ==
    {f \in FailoverBots :
        \/ ~MapHas(delivered.players[f], cmd.guildId)
        \/ delivered.players[f][cmd.guildId] = cmd.userVoiceChannelId}

LowestAvailable ==
    CHOOSE f \in AvailableAtDelivery : \A o \in AvailableAtDelivery : f <= o

FailoverCase ==
    /\ IsMusic(cmd)
    /\ delivered.taken
    /\ cmd.userVoiceChannelId # NoChannel
    /\ \E m \in MainBots :
          /\ MapHas(delivered.players[m], cmd.guildId)
          /\ delivered.players[m][cmd.guildId] # cmd.userVoiceChannelId
    /\ Cardinality(AvailableAtDelivery) >= 2
    /\ ~HeldByOther(delivered.commandLocks, cmd.guildId, LowestAvailable, delivered.now)

\* the lowest available failover bot has not returned false, no other bot has returned true
LowestAvailableDecides ==
    /\ pc[LowestAvailable] # "false"
    /\ \A o \in Bots \ {LowestAvailable} : pc[o] \notin {"true", "done"}

OthersIdleAndUnassigned ==
    \A o \in AvailableAtDelivery \ {LowestAvailable} :
        /\ ~MapHas(delivered.players[o], cmd.guildId)
        /\ ~(/\ MapHas(delivered.assignments, cmd.guildId)
             /\ delivered.assignments[cmd.guildId].assignedBotId = o)

ServingPeerDecides(b) ==
    /\ IsMusic(cmd)
    /\ ~isMainBot(b)
    /\ pc[b] = "start"
    /\ pc'[b] # "start"
    /\ HasPlayer(b, cmd.guildId)
    /\ players[b][cmd.guildId] = cmd.userVoiceChannelId

\* C8 as stated: a failover bot that has a player for the guild in channel C returns
\* true for every music command of the guild whose requester is in C.
C8_ServingPeerHandles ==
    [][\A b \in Bots : ServingPeerDecides(b) => pc'[b] = "true"]_vars

\* C8 amended: a failover bot that has a player for the guild in channel C returns true
\* for every music command of the guild whose requester is in C, and then owns the
\* lock, provided no other bot holds an unexpired lock for the guild when it evaluates;
\* when another bot does, it returns false.
C8_ServingPeerHandlesUnlessLocked ==
    [][\A b \in Bots :
          ServingPeerDecides(b) =>
              IF HeldByOther(commandLocks, cmd.guildId, b, now)
              THEN pc'[b] = "false" /\ commandLocks' = commandLocks
              ELSE pc'[b] = "true" /\ Owns(commandLocks', cmd.guildId, b, now)]_vars

\* a failover bot serving the requester's channel since delivery has returned true
C8_ServingPeerHandled ==
    \E b \in FailoverBots :
        /\ IsMusic(cmd)
        /\ delivered.taken
        /\ MapHas(delivered.players[b], cmd.guildId)
        /\ delivered.players[b][cmd.guildId] = cmd.userVoiceChannelId
        /\ ~HeldByOther(delivered.commandLocks, cmd.guildId, b, delivered.now)
        /\ pc[b] = "true"
        /\ Owns(commandLocks, cmd.guildId, b, now)

\* failover bot b completes a part of its evaluation of a music command while the
\* assignment is active and owned by b and no other bot holds an unexpired lock
OwnerDecides(b) ==
    /\ IsMusic(cmd)
    /\ ~isMainBot(b)
    /\ pc[b] \in {"start", "await"}
    /\ pc'[b] # pc[b]
    /\ ActiveOwnedBy(assignments, cmd.guildId, b)
    /\ ~HeldByOther(commandLocks, cmd.guildId, b, now)

\* b goes on to read the assignment, or returns true as the owner of the lock
HandlesWithLock(b) ==
    \/ pc[b] = "start" /\ pc'[b] = "await"
    \/ pc'[b] = "true" /\ Owns(commandLocks', cmd.guildId, b, now)

\* C9 as stated: a failover bot evaluating a music command for a guild whose assignment
\* is active and owned by it, while no other bot holds an unexpired lock, acquires the
\* lock and returns true, whatever player it has itself.
C9_OwnerHandles ==
    [][\A b \in Bots : OwnerDecides(b) => HandlesWithLock(b)]_vars

\* C9 amended: a failover bot evaluating a music command for a guild whose assignment
\* is active and owned by it, while no other bot holds an unexpired lock, acquires the
\* lock and returns true, unless it has a player for the guild in a channel other than
\* the requester's: then it returns false and the lock table holds no lock of its
\* probe.
C9_OwnerHandlesUnlessBusyElsewhere ==
    [][\A b \in Bots :
          OwnerDecides(b) =>
              IF /\ cmd.userVoiceChannelId # NoChannel
                 /\ HasPlayer(b, cmd.guildId)
                 /\ players[b][cmd.guildId] # cmd.userVoiceChannelId
              THEN pc'[b] = "false"
              ELSE HandlesWithLock(b)]_vars

\* a failover bot without a player returned true as the assignment's active owner, and
\* owns the lock, while the main bot is not busy in another channel (no takeover applies)
C9_OwnerHandled ==
    \E b \in FailoverBots :
        /\ IsMusic(cmd)
        /\ delivered.taken
        /\ ActiveOwnedBy(delivered.assignments, cmd.guildId, b)
        /\ ~MapHas(delivered.players[b], cmd.guildId)
        /\ \A m \in MainBots :
              \/ ~MapHas(delivered.players[m], cmd.guildId)
              \/ delivered.players[m][cmd.guildId] = cmd.userVoiceChannelId
        /\ pc[b] = "true"
        /\ Owns(commandLocks, cmd.guildId, b, now)

\* C10: for a music command whose requester is in a channel, the main bot returns
\* false exactly when it has a player for the guild in a channel other than the
\* requester's (decided before it reads the assignment) or the assignment it reads is
\* active and owned by another bot; in every other case it makes one acquire attempt,
\* which leaves another bot's unexpired lock alone, and returns true.
C10_MainBotDecision ==
    [][\A b \in MainBots :
          (IsMusic(cmd) /\ cmd.userVoiceChannelId # NoChannel /\ pc'[b] # pc[b]) =>
              /\ pc[b] = "start" =>
                    /\ commandLocks' = commandLocks
                    /\ IF /\ MapHas(players[b], cmd.guildId)
                          /\ players[b][cmd.guildId] # cmd.userVoiceChannelId
                       THEN pc'[b] = "false"
                       ELSE pc'[b] = "await"
              /\ pc[b] = "await" =>
                    IF ActiveOwnedByOther(assignments, cmd.guildId, b)
                    THEN pc'[b] = "false" /\ commandLocks' = commandLocks
                    ELSE /\ pc'[b] = "true"
                         /\ IF HeldByOther(commandLocks, cmd.guildId, b, now)
                            THEN commandLocks' = commandLocks
                            ELSE Owns(commandLocks', cmd.guildId, b, now)]_vars

\* the main bot, with no player in another channel, returned false because the
\* assignment is active and owned by another bot
C10_MainBotDeferredToOwner ==
    \E b \in MainBots :
        /\ IsMusic(cmd)
        /\ delivered.taken
        /\ cmd.userVoiceChannelId # NoChannel
        /\ \/ ~MapHas(delivered.players[b], cmd.guildId)
           \/ delivered.players[b][cmd.guildId] = cmd.userVoiceChannelId
        /\ ActiveOwnedByOther(delivered.assignments, cmd.guildId, b)
        /\ pc[b] = "false"

----------------------------------------------------------------------------
(* Routing from every configuration: the cluster starts with any players,   *)
(* any assignment and any lock, then commands are delivered, evaluated and  *)
(* run.  Every drawn configuration is one the cluster gets into: takeovers  *)
(* and channel moves put players anywhere, forceAssign puts any owner on    *)
(* the row, teardowns leave it active or inactive beside any players, and a *)
(* bot that returned true leaves its lock behind.  A row exists as soon as  *)
(* a player was ever created.                                               *)

RoutePlayers == [Bots -> {EmptyMap} \cup {[g \in Guilds |-> c] : c \in Channels}]

RouteRows ==
    {[assignedBotId |-> o, isActive |-> a, voiceChannelId |-> c,
      assignmentReason |-> "auto", previousBotId |-> NoBot, lastActivity |-> 0] :
        o \in Bots, a \in BOOLEAN, c \in Channels \cup {NoChannel}}

RouteStores ==
    {EmptyMap} \cup
    {[g \in Guilds |-> r] :
        r \in {x \in RouteRows : x.isActive <=> x.voiceChannelId # NoChannel}}

RouteLocks ==
    {EmptyMap} \cup
    {[g \in Guilds |-> [botId |-> b, timestamp |-> t]] : b \in Bots, t \in {0, MaxNow}}

RouteInit ==
    /\ now = MaxNow
    /\ commandLocks \in RouteLocks
    /\ players \in RoutePlayers
    /\ assignments \in RouteStores
    /\ (assignments = EmptyMap => \A b \in Bots : players[b] = EmptyMap)
    /\ pendingVoice = [b \in Bots |-> "none"]
    /\ cmd = NoCmd
    /\ pc = [b \in Bots |-> "idle"]
    /\ events = 0
    /\ delivered = NoSnapshot
    /\ lockLog = [last |-> NoCall, win |-> EmptyMap]
    /\ ready = [b \in Bots |-> TRUE]
    /\ playerCount = [b \in Bots |-> 0]
    /\ options = DefaultOptions
    /\ callLog = NoCall
    /\ botStatus = EmptyMap

RouteNext ==
    \/ Deliver
    \/ \E b \in Bots : EvalSync(b)
    \/ \E b \in Bots : EvalResume(b)
    \/ \E b \in Bots : Run(b)
    \/ Retire

SpecRoute == RouteInit /\ [][RouteNext]_vars

----------------------------------------------------------------------------
(* Properties of routing from every configuration (SpecRoute) *)

\* C11: for a command that is not a music command, whatever the locks, the assignment
\* and the players, the main bot returns true and every failover bot returns false: the
\* main bot alone handles it.
C11_OnlyMainHandlesOther ==
    (cmd # NoCmd /\ ~IsMusic(cmd)) =>
        \A b \in Bots :
            IF b = 1
            THEN pc[b] \in {"start", "true", "done"}
            ELSE pc[b] \in {"start", "false"}

\* every bot has decided on a non-music command, the main bot alone handles it, although
\* it is busy in another channel, another bot holds the lock and owns the assignment
C11_MainHandledDespiteAll ==
    /\ cmd # NoCmd
    /\ ~IsMusic(cmd)
    /\ Handled = {1}
    /\ \A b \in Bots \ {1} : pc[b] = "false"
    /\ cmd.userVoiceChannelId # NoChannel
    /\ MapHas(players[1], cmd.guildId)
    /\ players[1][cmd.guildId] # cmd.userVoiceChannelId
    /\ HeldByOther(commandLocks, cmd.guildId, 1, now)
    /\ ActiveOwnedByOther(assignments, cmd.guildId, 1)

\* as cmd was delivered, every bot had a player for the guild in a channel other than
\* the requester's
AllBusyElsewhere ==
    /\ IsMusic(cmd)
    /\ delivered.taken
    /\ cmd.userVoiceChannelId # NoChannel
    /\ \A b \in Bots :
          /\ MapHas(delivered.players[b], cmd.guildId)
          /\ delivered.players[b][cmd.guildId] # cmd.userVoiceChannelId

\* C12: when the main bot and every failover bot have a player for the guild in a
\* channel other than the requester's, no bot returns true for the music command.
C12_SilentDrop ==
    AllBusyElsewhere => \A b \in Bots : pc[b] \in {"start", "false"}

\* the command was dropped: every bot was busy elsewhere and every bot returned false
C12_Dropped ==
    /\ AllBusyElsewhere
    /\ \A b \in Bots : pc[b] = "false"

----------------------------------------------------------------------------
(* LoadBalancer: peer selection and assignBot.  The operators take the      *)
(* state they read: rdy[b] is client.isReady(), counts[b] is the cached     *)
(* client.playerCount the sorts compare, sizes[b] is the live               *)
(* client.lavalink.players.size the capacity test reads.                    *)

BalanceGuilds == {"g1", "g2"}

Strategies == {"priority", "roundRobin"}

\* the values of options.maxPlayersPerBot the balancer is configured with
Capacities == {1, 2}

\* client.lavalink?.players?.size || 0
PlayersSize(b) == Cardinality(DOMAIN players[b])

Sizes == [b \in Bots |-> PlayersSize(b)]

\* the comparator of the sort in _selectByPriority: negative when a goes first
PriorityCompare(a, b, counts) ==
    IF isMainBot(a) /\ ~isMainBot(b) THEN -1
    ELSE IF ~isMainBot(a) /\ isMainBot(b) THEN 1
    ELSE counts[a] - counts[b]

\* the comparator of the sort in _selectByRoundRobin
LoadCompare(a, b, counts) == counts[a] - counts[b]

RECURSIVE SortedBots(_, _, _)
\* [...botCluster.entries()].sort(compare) on the bots of S: the sort is stable, so bots
\* the comparator ties stay in cluster order bot-1, bot-2, bot-3
SortedBots(S, counts, mainFirst) ==
    IF S = {}
    THEN <<>>
    ELSE LET compare(a, b) == IF mainFirst THEN PriorityCompare(a, b, counts)
                                           ELSE LoadCompare(a, b, counts)
             first == CHOOSE a \in S : \A b \in S \ {a} :
                          compare(a, b) < 0 \/ (compare(a, b) = 0 /\ a < b)
         IN  <<first>> \o SortedBots(S \ {first}, counts, mainFirst)

ReadyBots(rdy) == {b \in Bots : rdy[b]}

\* _selectByPriority with its fallback to the unsorted head left out
selectByPriority_noFallback(rdy, counts, sizes, max) ==
    LET sortedBots == SortedBots(ReadyBots(rdy), counts, TRUE)
        under == {i \in 1..Len(sortedBots) : sizes[sortedBots[i]] < max}
    IN  IF under # {}
        THEN sortedBots[CHOOSE i \in under : \A j \in under : i <= j]
        ELSE NoBot

\* _selectByPriority sorting by load only
selectByPriority_loadOnly(rdy, counts, sizes, max) ==
    LET sortedBots == SortedBots(ReadyBots(rdy), counts, FALSE)
        under == {i \in 1..Len(sortedBots) : sizes[sortedBots[i]] < max}
    IN  IF under # {}
        THEN sortedBots[CHOOSE i \in under : \A j \in under : i <= j]
        ELSE IF Len(sortedBots) > 0 THEN sortedBots[1] ELSE NoBot

\* _selectByPriority: the bot id selected, NoBot for null
selectByPriority(rdy, counts, sizes, max) ==
    LET sortedBots == SortedBots(ReadyBots(rdy), counts, TRUE)
        under == {i \in 1..Len(sortedBots) : sizes[sortedBots[i]] < max}
    IN  IF under # {}
        THEN sortedBots[CHOOSE i \in under : \A j \in under : i <= j]
        ELSE IF Len(sortedBots) > 0 THEN sortedBots[1] ELSE NoBot

selectByRoundRobin(rdy, counts) ==
    LET availableBots == SortedBots(ReadyBots(rdy), counts, FALSE)
    IN  IF Len(availableBots) = 0 THEN NoBot ELSE availableBots[1]

selectBot(opts, rdy, counts, sizes) ==
    IF opts.strategy = "priority"
    THEN selectByPriority(rdy, counts, sizes, opts.maxPlayersPerBot)
    ELSE IF opts.strategy = "roundRobin"
    THEN selectByRoundRobin(rdy, counts)
    ELSE selectByPriority(rdy, counts, sizes, opts.maxPlayersPerBot)

\* assignBot past its sticky return: select a bot, then getOrCreateAssignment
\* the selection moving an existing row to the selected bot by reassignGuild
selectAndAssign_reassigns(store, guildId, opts, rdy, counts, sizes, t) ==
    LET selectedBot == selectBot(opts, rdy, counts, sizes)
    IN  IF selectedBot = NoBot
        THEN [store |-> store, botId |-> NoBot, selected |-> TRUE]
        ELSE [store |-> IF MapHas(store, guildId)
                        THEN reassignGuild(store, guildId, selectedBot, "failover", t)
                        ELSE getOrCreateAssignment(store, guildId, selectedBot, "auto", t),
              botId |-> selectedBot, selected |-> TRUE]

selectAndAssign(store, guildId, opts, rdy, counts, sizes, t) ==
    LET selectedBot == selectBot(opts, rdy, counts, sizes)
    IN  IF selectedBot = NoBot
        THEN [store |-> store, botId |-> NoBot, selected |-> TRUE]
        ELSE [store |-> getOrCreateAssignment(store, guildId, selectedBot,
                            IF MapHas(store, guildId) THEN "failover" ELSE "auto", t),
              botId |-> selectedBot, selected |-> TRUE]

\* assignBot without its sticky return
assignBot_neverSticky(store, guildId, opts, rdy, counts, sizes, t) ==
    selectAndAssign(store, guildId, opts, rdy, counts, sizes, t)

\* assignBot(guildId): the collection after the call, the bot id returned (NoBot for
\* null) and whether _selectBot ran
assignBot(store, guildId, opts, rdy, counts, sizes, t) ==
    LET existingAssignment == findById(store, guildId)
    IN  IF /\ existingAssignment.found
           /\ existingAssignment.isActive
           /\ existingAssignment.assignedBotId \in Bots
           /\ rdy[existingAssignment.assignedBotId]
        THEN [store |-> [store EXCEPT ![guildId] = touch(@, t)],
              botId |-> existingAssignment.assignedBotId, selected |-> FALSE]
        ELSE selectAndAssign(store, guildId, opts, rdy, counts, sizes, t)

\* releaseBot(guildId)
releaseBot(store, guildId, t) == DeactivateIfFound(store, guildId, t)

----------------------------------------------------------------------------
(* Health: the status every bot reports on a heartbeat and the stale check. *)
(* A status write (client.updateStatus) either persists the record or       *)
(* rejects; failed is the set of bots whose write rejects in this round.    *)

\* all bots ready, or all but one
StoreReady == {[b \in Bots |-> b # down] : down \in Bots \cup {NoBot}}

\* the bots whose status write rejects in one round: none, or one of them
WriteFailures == {{}} \cup {{b} : b \in Bots}

\* the status _updateBotStatus computes with every bot with a player reported Available
computeStatus_inUseAtCapacityOnly(isReady, size, max) ==
    IF ~isReady THEN "Offline"
    ELSE IF size >= max THEN "InUse"
    ELSE "Available"

\* the status _updateBotStatus computes from isReady() and players.size
computeStatus(isReady, size, max) ==
    IF ~isReady THEN "Offline"
    ELSE IF size >= max THEN "InUse"
    ELSE IF size > 0 THEN "InUse"
    ELSE "Available"

\* BotStatus.updateHeartbeat(botId, {status, ...}): upsert, lastHeartbeat = new Date()
updateHeartbeat(statuses, botId, status, t) ==
    MapSet(statuses, botId, [status |-> status, lastHeartbeat |-> t])

\* client.updateStatus(status, metrics): persists the record, or rejects and writes nothing
updateStatus(statuses, botId, status, t, rejects) ==
    IF rejects THEN statuses ELSE updateHeartbeat(statuses, botId, status, t)

\* _updateBotStatus letting a rejected write escape
updateBotStatus_rethrows(statuses, b, rdy, sizes, opts, t, failed) ==
    [statuses |-> updateStatus(statuses, b,
                               computeStatus(rdy[b], sizes[b], opts.maxPlayersPerBot),
                               t, b \in failed),
     threw |-> b \in failed]

\* _updateBotStatus(client): the try block, and the catch that logs
updateBotStatus(statuses, b, rdy, sizes, opts, t, failed) ==
    [statuses |-> updateStatus(statuses, b,
                               computeStatus(rdy[b], sizes[b], opts.maxPlayersPerBot),
                               t, b \in failed),
     threw |-> FALSE]

RECURSIVE UpdateFrom(_, _, _, _, _, _, _)
\* for (const [botId, client] of this.botCluster) await this._updateBotStatus(client),
\* from bot b on, in cluster order; stops where a call throws
UpdateFrom(statuses, b, rdy, sizes, opts, t, failed) ==
    IF b \notin Bots
    THEN [statuses |-> statuses, threw |-> FALSE]
    ELSE LET r == updateBotStatus(statuses, b, rdy, sizes, opts, t, failed)
         IN  IF r.threw THEN r
             ELSE UpdateFrom(r.statuses, b + 1, rdy, sizes, opts, t, failed)

updateAll(statuses, rdy, sizes, opts, t, failed) ==
    UpdateFrom(statuses, 1, rdy, sizes, opts, t, failed)

\* the stale check marking every stale record Offline
markStaleBotsOffline_all(statuses, threshold, t) ==
    [b \in DOMAIN statuses |->
        IF statuses[b].lastHeartbeat < t - threshold
        THEN [statuses[b] EXCEPT !.status = "Offline"]
        ELSE statuses[b]]

\* updateMany({lastHeartbeat: {$lt: now - threshold}, status: {$nin: ['Offline', 'Error']}},
\*            {$set: {status: 'Offline'}})
markStaleBotsOffline(statuses, threshold, t) ==
    [b \in DOMAIN statuses |->
        IF /\ statuses[b].lastHeartbeat < t - threshold
           /\ statuses[b].status \notin {"Offline", "Error"}
        THEN [statuses[b] EXCEPT !.status = "Offline"]
        ELSE statuses[b]]

\* _heartbeat: the records afterwards and whether the round reached its end
heartbeat(statuses, rdy, sizes, opts, t, failed) ==
    LET r == updateAll(statuses, rdy, sizes, opts, t, failed)
    IN  IF r.threw
        THEN [statuses |-> r.statuses, completed |-> FALSE]
        ELSE [statuses |-> markStaleBotsOffline(r.statuses, opts.staleThreshold, t),
              completed |-> TRUE]

----------------------------------------------------------------------------
(* The load balancer from every configuration: any readiness, any cached    *)
(* and live player counts, either strategy, any assignment of g1.  The      *)
(* balancer reads only how many players a bot has: a bot has none, one on   *)
(* g2, or one on each key, all in one channel.  A key with a player has a   *)
(* row, and the row of g2 is the one its first play leaves.  Calls count as *)
(* events.                                                                   *)

BalancePlayers == [Bots -> {[g \in S |-> "vc1"] : S \in {{}, {"g2"}, BalanceGuilds}}]

BalanceRows ==
    {[assignedBotId |-> o, isActive |-> a, voiceChannelId |-> IF a THEN "vc1" ELSE NoChannel,
      assignmentReason |-> "auto", previousBotId |-> NoBot, lastActivity |-> 0] :
        o \in Bots, a \in BOOLEAN}

BalanceOptions ==
    [strategy : Strategies, maxPlayersPerBot : Capacities, staleThreshold : {staleThreshold}]

Played(g) == \E b \in Bots : HasPlayer(b, g)

BalanceInit ==
    /\ now = 1
    /\ commandLocks = EmptyMap
    /\ players \in BalancePlayers
    /\ \E r \in BalanceRows, has \in BOOLEAN :
          /\ Played("g1") => has
          /\ assignments =
               [g \in (IF has THEN {"g1"} ELSE {}) \cup (IF Played("g2") THEN {"g2"} ELSE {}) |->
                   IF g = "g1" THEN r ELSE activate(NewRow(1, "auto", 0), "vc1", 0)]
    /\ pendingVoice = [b \in Bots |-> "none"]
    /\ cmd = NoCmd
    /\ pc = [b \in Bots |-> "idle"]
    /\ events = 0
    /\ delivered = NoSnapshot
    /\ lockLog = [last |-> NoCall, win |-> EmptyMap]
    /\ ready \in [Bots -> BOOLEAN]
    /\ playerCount \in [Bots -> 0..Cardinality(BalanceGuilds)]
    /\ options \in BalanceOptions
    /\ callLog = NoCall
    /\ botStatus = EmptyMap

BalanceCall(op, guildId, botId, selected) ==
    [op |-> op, guildId |-> guildId, botId |-> botId, selected |-> selected,
     threw |-> FALSE,
     before |-> [assignments |-> assignments, ready |-> ready,
                 playerCount |-> playerCount, sizes |-> Sizes],
     at |-> now]

AssignBot(guildId) ==
    LET r == assignBot(assignments, guildId, options, ready, playerCount, Sizes, now)
    IN  /\ events < MaxEvents
        /\ events' = events + 1
        /\ assignments' = r.store
        /\ callLog' = BalanceCall("assignBot", guildId, r.botId, r.selected)
        /\ UNCHANGED <<now, commandLocks, players, pendingVoice, cmd, pc, delivered,
                       lockLog, ready, playerCount, options, botStatus>>

ReleaseBot(guildId) ==
    /\ events < MaxEvents
    /\ events' = events + 1
    /\ assignments' = releaseBot(assignments, guildId, now)
    /\ callLog' = BalanceCall("releaseBot", guildId, NoBot, FALSE)
    /\ UNCHANGED <<now, commandLocks, players, pendingVoice, cmd, pc, delivered,
                   lockLog, ready, playerCount, options, botStatus>>

\* _heartbeat, every status write succeeding
Heartbeat ==
    \E failed \in {{}} :
    /\ events < MaxEvents
    /\ events' = events + 1
    /\ playerCount' = Sizes
    /\ botStatus' = heartbeat(botStatus, ready, Sizes, options, now, failed).statuses
    /\ callLog' = BalanceCall("heartbeat", "null", NoBot, FALSE)
    /\ UNCHANGED <<now, commandLocks, assignments, players, pendingVoice, cmd, pc,
                   delivered, lockLog, ready, options>>

BalanceNext ==
    \/ \E g \in BalanceGuilds : AssignBot(g)
    \/ \E g \in BalanceGuilds : ReleaseBot(g)
    \/ Heartbeat

SpecBalance == BalanceInit /\ [][BalanceNext]_vars

----------------------------------------------------------------------------
(* Properties of the load balancer (SpecBalance) *)

StickyCase(c) ==
    /\ c.op = "assignBot"
    /\ MapHas(c.before.assignments, c.guildId)
    /\ c.before.assignments[c.guildId].isActive
    /\ c.before.assignments[c.guildId].assignedBotId \in Bots
    /\ c.before.ready[c.before.assignments[c.guildId].assignedBotId]

\* C13: sticky routing.  When assignBot(K) is called while the assignment of K exists, is
\* active and its owner is a ready bot of the cluster, the call returns the owner, does
\* not run the selection, and the collection afterwards is the collection before with
\* only lastActivity of K's row set to the time of the call.
C13_StickyRouting ==
    StickyCase(callLog) =>
        /\ callLog.botId = callLog.before.assignments[callLog.guildId].assignedBotId
        /\ ~callLog.selected
        /\ assignments =
             [callLog.before.assignments EXCEPT ![callLog.guildId].lastActivity = callLog.at]

\* the sticky case with a selection that would have picked another bot, and a row whose
\* lastActivity the call moved
C13_StickyDespiteSelection ==
    /\ StickyCase(callLog)
    /\ selectBot(options, callLog.before.ready, callLog.before.playerCount,
                 callLog.before.sizes) # callLog.botId
    /\ assignments[callLog.guildId].lastActivity #
           callLog.before.assignments[callLog.guildId].lastActivity

PrioritySelection(c) ==
    c.op = "assignBot" /\ c.selected /\ options.strategy = "priority"

UnderCapacity(c, b) ==
    c.before.ready[b] /\ c.before.sizes[b] < options.maxPlayersPerBot

AllAtCapacity(c) ==
    /\ \E b \in Bots : c.before.ready[b]
    /\ \A b \in Bots : c.before.ready[b] => c.before.sizes[b] >= options.maxPlayersPerBot

\* C15: capacity degradation.  With the priority strategy, a selection made while every
\* ready bot has maxPlayersPerBot players or more returns a ready bot, not null, and no
\* ready bot has fewer players at that moment than the bot returned.
C15_DegradesToLeastLoaded ==
    (PrioritySelection(callLog) /\ AllAtCapacity(callLog)) =>
        /\ callLog.botId \in Bots
        /\ callLog.before.ready[callLog.botId]
        /\ \A b \in Bots :
              callLog.before.ready[b] =>
                  callLog.before.sizes[callLog.botId] <= callLog.before.sizes[b]

\* C16: under either strategy assignBot returns null exactly when the call is not a
\* sticky one and no bot of the cluster is ready; with a ready bot it returns a bot.
C16_NullOnlyWithoutReadyBot ==
    callLog.op = "assignBot" =>
        /\ callLog.botId = NoBot <=>
              (~StickyCase(callLog) /\ \A b \in Bots : ~callLog.before.ready[b])
        /\ (\E b \in Bots : callLog.before.ready[b]) => callLog.botId \in Bots

\* null returned for a key whose assignment is active, no bot being ready
C16_NullReturned ==
    /\ callLog.op = "assignBot"
    /\ callLog.botId = NoBot
    /\ MapHas(assignments, callLog.guildId)
    /\ assignments[callLog.guildId].isActive

----------------------------------------------------------------------------
(* The assignment store under every writer: the statics and methods of      *)
(* GuildAssignment called directly, the load balancer, cmd.run of a bot     *)
(* that decided to handle the command in flight, and the voice and timeout  *)
(* handlers.  It starts from any row, any players and any readiness, with   *)
(* no command in flight or with a music command from vc1 that one bot is    *)
(* about to run, at a time when a row last active at 0 is stale.  callLog   *)
(* is the last direct call and its number among the events.                 *)

Reasons == {"auto", "failover"}


StoreCommands ==
    {[name |-> n, guildId |-> g, userVoiceChannelId |-> vc] :
        n \in MUSIC_COMMANDS, g \in Guilds, vc \in {"vc1"}}

StoreInit ==
    /\ now = staleThreshold + 1
    /\ commandLocks = EmptyMap
    /\ players \in RoutePlayers
    /\ assignments \in RouteStores
    /\ (assignments = EmptyMap => \A b \in Bots : players[b] = EmptyMap)
    /\ pendingVoice = [b \in Bots |-> "none"]
    /\ \/ cmd = NoCmd /\ pc = [b \in Bots |-> "idle"]
       \/ /\ cmd \in StoreCommands
          /\ \E h \in Bots : pc = [b \in Bots |-> IF b = h THEN "true" ELSE "false"]
    /\ events = 0
    /\ delivered = NoSnapshot
    /\ lockLog = [last |-> NoCall, win |-> EmptyMap]
    /\ ready \in StoreReady
    /\ playerCount = [b \in Bots |-> 0]
    /\ options = DefaultOptions
    /\ callLog = NoCall
    /\ botStatus = EmptyMap

StoreCall(op, guildId, botId, reason) ==
    [op |-> op, guildId |-> guildId, botId |-> botId, reason |-> reason, seq |-> events + 1]

StoreStep(op, guildId, botId, reason, after) ==
    /\ events < MaxEvents
    /\ events' = events + 1
    /\ assignments' = after
    /\ callLog' = StoreCall(op, guildId, botId, reason)
    /\ UNCHANGED <<now, commandLocks, players, pendingVoice, cmd, pc, delivered, lockLog,
                   ready, playerCount, options, botStatus>>

GetOrCreateAssignment(guildId, botId, reason) ==
    StoreStep("getOrCreateAssignment", guildId, botId, reason,
              getOrCreateAssignment(assignments, guildId, botId, reason, now))

ReassignGuild(guildId, newBotId, reason) ==
    StoreStep("reassignGuild", guildId, newBotId, reason,
              reassignGuild(assignments, guildId, newBotId, reason, now))

\* assignment.activate(voiceChannelId, textChannelId) on the row found for guildId
Activate(guildId, voiceChannelId) ==
    /\ MapHas(assignments, guildId)
    /\ StoreStep("activate", guildId, NoBot, "null",
                 [assignments EXCEPT ![guildId] = activate(@, voiceChannelId, now)])

Deactivate(guildId) ==
    /\ MapHas(assignments, guildId)
    /\ StoreStep("deactivate", guildId, NoBot, "null",
                 [assignments EXCEPT ![guildId] = deactivate(@, now)])

Touch(guildId) ==
    /\ MapHas(assignments, guildId)
    /\ StoreStep("touch", guildId, NoBot, "null",
                 [assignments EXCEPT ![guildId] = touch(@, now)])

\* LoadBalancer.initialize: a status update of every bot (every write succeeding), then
\* the stale sweep
Initialize ==
    \E failed \in {{}} :
    /\ events < MaxEvents
    /\ events' = events + 1
    /\ playerCount' = Sizes
    /\ botStatus' = updateAll(botStatus, ready, Sizes, options, now, failed).statuses
    /\ assignments' = releaseInactiveAssignments(assignments, options.staleThreshold, now)
    /\ callLog' = StoreCall("initialize", "null", NoBot, "null")
    /\ UNCHANGED <<now, commandLocks, players, pendingVoice, cmd, pc, delivered, lockLog,
                   ready, options>>

\* forceAssign called by an operator, with the call and its result on record
ForceAssignCall ==
    \E g \in Guilds, target \in Bots \cup {NoBot} :
        LET r == forceAssign(g, target)
        IN  /\ events < MaxEvents
            /\ events' = events + 1
            /\ assignments' = r.store
            /\ delivered' = NoSnapshot
            /\ callLog' = [op |-> "forceAssign", guildId |-> g, botId |-> target,
                           success |-> r.success, seq |-> events + 1]
            /\ UNCHANGED <<now, commandLocks, players, pendingVoice, cmd, pc, lockLog,
                           ready, playerCount, options, botStatus>>

StoreNext ==
    \/ \E g \in Guilds, b \in Bots, r \in Reasons : GetOrCreateAssignment(g, b, r)
    \/ \E g \in Guilds, b \in Bots, r \in Reasons : ReassignGuild(g, b, r)
    \/ \E g \in Guilds, c \in Channels : Activate(g, c)
    \/ \E g \in Guilds : Deactivate(g)
    \/ \E g \in Guilds : Touch(g)
    \/ Initialize
    \/ \E g \in Guilds : AssignBot(g)
    \/ \E g \in Guilds : ReleaseBot(g)
    \/ \E b \in Bots : Run(b)
    \/ \E b \in Bots : BotDisconnected(b)
    \/ \E b \in Bots : BotJoined(b)
    \/ \E b \in Bots : BotMoved(b)
    \/ \E b \in Bots : QueueEndTimeout(b)
    \/ \E b \in Bots : AloneTimeout(b)
    \/ ForceAssignCall

SpecStore == StoreInit /\ [][StoreNext]_vars

----------------------------------------------------------------------------
(* Properties of the assignment store (SpecStore) *)

Called(op) == callLog' # callLog /\ callLog'.op = op

\* C17: getOrCreateAssignment is idempotent.  Called for a key that has a row, with any
\* bot id and any reason, it leaves the collection as it was: owner, reason, isActive
\* and channel of the row are unchanged.  Called for a key without a row, it creates the
\* row with the bot id and the reason passed.
C17_GetOrCreateIdempotent ==
    [][Called("getOrCreateAssignment") =>
        IF MapHas(assignments, callLog'.guildId)
        THEN assignments' = assignments
        ELSE /\ MapHas(assignments', callLog'.guildId)
             /\ assignments'[callLog'.guildId].assignedBotId = callLog'.botId
             /\ assignments'[callLog'.guildId].assignmentReason = callLog'.reason]_vars

\* getOrCreateAssignment has just been called with another bot id and another reason than
\* the active row has
C17_CalledWithOtherOwner ==
    /\ callLog.op = "getOrCreateAssignment"
    /\ callLog.seq = events
    /\ MapHas(assignments, callLog.guildId)
    /\ assignments[callLog.guildId].assignedBotId # callLog.botId
    /\ assignments[callLog.guildId].assignmentReason # callLog.reason
    /\ assignments[callLog.guildId].isActive

\* C18: reassignGuild always succeeds.  For a key that has a row it sets previousBotId to
\* the owner the row had before the call and assignedBotId to the new bot, and leaves
\* isActive and voiceChannelId as they were; for a key without a row it creates one
\* owned by the new bot.
C18_ReassignOverwritesOwner ==
    [][Called("reassignGuild") =>
        LET g == callLog'.guildId
        IN  /\ MapHas(assignments', g)
            /\ assignments'[g].assignedBotId = callLog'.botId
            /\ MapHas(assignments, g) =>
                  /\ assignments'[g].previousBotId = assignments[g].assignedBotId
                  /\ assignments'[g].isActive = assignments[g].isActive
                  /\ assignments'[g].voiceChannelId = assignments[g].voiceChannelId]_vars

\* reassignGuild has just moved an active row from one bot to another
C18_ActiveRowReassigned ==
    /\ callLog.op = "reassignGuild"
    /\ callLog.seq = events
    /\ MapHas(assignments, callLog.guildId)
    /\ assignments[callLog.guildId].isActive
    /\ assignments[callLog.guildId].previousBotId \in Bots \ {callLog.botId}

OwnerChanged(g) ==
    /\ MapHas(assignments, g)
    /\ MapHas(assignments', g)
    /\ assignments'[g].assignedBotId # assignments[g].assignedBotId

C20_RowsNeverDeleted ==
    [][\A g \in Guilds : MapHas(assignments, g) => MapHas(assignments', g)]_vars

\* a row that was released: it is still there, inactive, with a later lastActivity
C20_ReleasedRowKept ==
    /\ callLog.op = "releaseBot"
    /\ MapHas(callLog.before.assignments, callLog.guildId)
    /\ callLog.before.assignments[callLog.guildId].isActive
    /\ MapHas(assignments, callLog.guildId)
    /\ ~assignments[callLog.guildId].isActive

Stale(row, inactiveThreshold, t) ==
    row.isActive /\ row.lastActivity < t - inactiveThreshold

\* C21: the stale sweep is idempotent.  A second releaseInactiveAssignments with the same
\* threshold, right after the first, leaves the collection as the first left it; and
\* the first changes nothing but isActive, which it sets to false on exactly the rows
\* that were active with lastActivity older than the threshold.
C21_SweepIdempotent ==
    [][Called("initialize") =>
        /\ releaseInactiveAssignments(assignments', options.staleThreshold, now) =
               assignments'
        /\ DOMAIN assignments' = DOMAIN assignments
        /\ \A g \in DOMAIN assignments :
              assignments'[g] =
                  IF Stale(assignments[g], options.staleThreshold, now)
                  THEN [assignments[g] EXCEPT !.isActive = FALSE]
                  ELSE assignments[g]]_vars

\* the sweep has just run over a row it released (inactive, its channel still recorded)
C21_StaleRowSwept ==
    /\ callLog.op = "initialize"
    /\ callLog.seq = events
    /\ \E g \in DOMAIN assignments :
          ~assignments[g].isActive /\ assignments[g].voiceChannelId # NoChannel

----------------------------------------------------------------------------
(* The running cluster and its timer.  HealthInit is the state startCluster *)
(* leaves: LoadBalancer.initialize has written a status for every bot (one  *)
(* write may have failed) and swept the assignments, and startHeartbeat has *)
(* armed the interval.  From then on the only timer of the cluster fires    *)
(* _heartbeat every heartbeatInterval, and Lavalink nodes connect and       *)
(* disconnect.  All bots are ready or all but one, any of them has a player, *)
(* the main bot owns the assignment, and all that stays as it is.           *)

HealthPlayers == [Bots -> {EmptyMap} \cup {[g \in Guilds |-> "vc1"]}]

HealthStores ==
    {EmptyMap} \cup {[g \in Guilds |-> r] : r \in {x \in BalanceRows : isMainBot(x.assignedBotId)}}

HealthOptions ==
    [strategy : {"priority"}, maxPlayersPerBot : Capacities, staleThreshold : {staleThreshold}]

HealthInit ==
    /\ now = 0
    /\ commandLocks = EmptyMap
    /\ players \in HealthPlayers
    /\ \E store \in HealthStores :
          /\ store = EmptyMap => \A b \in Bots : players[b] = EmptyMap
          /\ assignments = releaseInactiveAssignments(store, staleThreshold, 0)
    /\ pendingVoice = [b \in Bots |-> "none"]
    /\ cmd = NoCmd
    /\ pc = [b \in Bots |-> "idle"]
    /\ events = 0
    /\ delivered = NoSnapshot
    /\ lockLog = [last |-> NoCall, win |-> EmptyMap]
    /\ ready \in StoreReady
    /\ playerCount = Sizes
    /\ options \in HealthOptions
    /\ callLog = NoCall
    /\ \E failed \in WriteFailures :
          botStatus = updateAll(EmptyMap, ready, Sizes, options, 0, failed).statuses

\* a heartbeat that also drops the expired entries of the lock table
HeartbeatTimer_expiresLocks ==
    \E failed \in WriteFailures :
        LET r == heartbeat(botStatus, ready, Sizes, options, now, failed)
        IN  /\ playerCount' = Sizes
            /\ botStatus' = r.statuses
            /\ commandLocks' = [g \in {k \in DOMAIN commandLocks :
                                         now - commandLocks[k].timestamp <= LOCK_TIMEOUT}
                                    |-> commandLocks[g]]
            /\ callLog' = [op |-> "heartbeat", failed |-> failed, completed |-> r.completed,
                           reported |-> [b \in Bots |->
                               computeStatus(ready[b], Sizes[b], options.maxPlayersPerBot)]]
            /\ UNCHANGED <<now, assignments, players, pendingVoice, cmd, pc,
                           events, delivered, lockLog, ready, options>>

\* the setInterval callback of startHeartbeat
HeartbeatTimer ==
    \E failed \in WriteFailures :
        LET r == heartbeat(botStatus, ready, Sizes, options, now, failed)
        IN  /\ playerCount' = Sizes
            /\ botStatus' = r.statuses
            /\ callLog' = [op |-> "heartbeat", failed |-> failed, completed |-> r.completed,
                           reported |-> [b \in Bots |->
                               computeStatus(ready[b], Sizes[b], options.maxPlayersPerBot)]]
            /\ UNCHANGED <<now, commandLocks, assignments, players, pendingVoice, cmd, pc,
                           events, delivered, lockLog, ready, options>>

HealthTick ==
    /\ Advance({heartbeatInterval}, MaxHealthNow)
    /\ UNCHANGED <<commandLocks, assignments, players, pendingVoice, cmd, pc, events,
                   delivered, lockLog, balVars>>

\* NodeDisconnect.run: the bot reports Available or Error; a rejected write is caught
NodeDisconnect(b) ==
    \E hasActiveNodes \in BOOLEAN, rejects \in BOOLEAN :
        /\ events < MaxEvents
        /\ events' = events + 1
        /\ botStatus' = updateStatus(botStatus, b,
                                     IF hasActiveNodes THEN "Available" ELSE "Error",
                                     now, rejects)
        /\ callLog' = [op |-> "nodeDisconnect", botId |-> b]
        /\ UNCHANGED <<now, commandLocks, assignments, players, pendingVoice, cmd, pc,
                       delivered, lockLog, ready, playerCount, options>>

\* NodeConnect.run: the bot reports Available
NodeConnect(b) ==
    \E rejects \in BOOLEAN :
        /\ events < MaxEvents
        /\ events' = events + 1
        /\ botStatus' = updateStatus(botStatus, b, "Available", now, rejects)
        /\ callLog' = [op |-> "nodeConnect", botId |-> b]
        /\ UNCHANGED <<now, commandLocks, assignments, players, pendingVoice, cmd, pc,
                       delivered, lockLog, ready, playerCount, options>>

HealthNext ==
    \/ HeartbeatTimer
    \/ HealthTick
    \/ \E b \in Bots : NodeDisconnect(b)
    \/ \E b \in Bots : NodeConnect(b)

SpecHealth == HealthInit /\ [][HealthNext]_vars

\* the cluster left to its timer, every bot ready: the interval keeps firing and time
\* keeps passing
SweepInit ==
    /\ HealthInit
    /\ \A b \in Bots : ready[b] /\ MapHas(botStatus, b)

SweepNext ==
    \/ HeartbeatTimer
    \/ HealthTick

SpecSweep ==
    SweepInit /\ [][SweepNext]_vars /\ WF_vars(HeartbeatTimer) /\ WF_vars(HealthTick)

----------------------------------------------------------------------------
(* Properties of the health timer (SpecSweep, SpecHealth) *)

StaleActive(g) ==
    MapHas(assignments, g) /\ Stale(assignments[g], options.staleThreshold, now)

\* C22: stale active assignments are swept periodically.  While the timer keeps firing,
\* an assignment that is active with lastActivity older than the threshold is eventually
\* inactive.
C22_StaleEventuallySwept ==
    \A g \in Guilds : StaleActive(g) ~> ~StaleActive(g)

\* C23: on every heartbeat the status reported for a bot is Offline when the bot is not
\* ready, otherwise InUse when it has maxPlayersPerBot players or more, and otherwise
\* Available.
C23_InUseAtCapacity ==
    callLog.op = "heartbeat" =>
        \A b \in Bots :
            callLog.reported[b] =
                IF ~ready[b] THEN "Offline"
                ELSE IF Sizes[b] >= options.maxPlayersPerBot THEN "InUse"
                ELSE "Available"

\* C23 as amended: on every heartbeat the status reported for a bot is Offline when the
\* bot is not ready, otherwise InUse when it has at least one player, at capacity or
\* not, and Available only when it has none.
C23_InUseWithAnyPlayer ==
    callLog.op = "heartbeat" =>
        \A b \in Bots :
            callLog.reported[b] =
                IF ~ready[b] THEN "Offline"
                ELSE IF Sizes[b] > 0 THEN "InUse"
                ELSE "Available"

\* a heartbeat reported InUse for a ready bot under capacity, Available for an idle one
\* and Offline for one that is not ready
C23_ReportedBelowCapacity ==
    /\ callLog.op = "heartbeat"
    /\ \E b \in Bots :
          /\ ready[b]
          /\ Sizes[b] > 0
          /\ Sizes[b] < options.maxPlayersPerBot
          /\ callLog.reported[b] = "InUse"
    /\ \E b \in Bots : ready[b] /\ callLog.reported[b] = "Available"
    /\ \E b \in Bots : ~ready[b] /\ callLog.reported[b] = "Offline"

\* a step of the heartbeat timer: the only step that leaves the clock alone and ends with
\* the heartbeat as the last call
HeartbeatStep ==
    /\ callLog'.op = "heartbeat"
    /\ now' = now
    /\ (callLog' # callLog \/ botStatus' # botStatus)

StaleRecord(statuses, b, t) ==
    MapHas(statuses, b) /\ statuses[b].lastHeartbeat < t - options.staleThreshold

\* C24: after the stale check of a heartbeat every status record whose last heartbeat is
\* older than staleThreshold has status Offline, whatever it held before.
C24_StaleForcedOffline ==
    [][HeartbeatStep /\ callLog'.completed =>
          \A b \in Bots :
              StaleRecord(botStatus', b, now') => botStatus'[b].status = "Offline"]_vars

\* C24 as amended: after the stale check of a heartbeat every status record whose last
\* heartbeat is older than staleThreshold has status Offline, except a record that held
\* Error, which keeps Error.
C24_StaleOfflineUnlessError ==
    [][HeartbeatStep /\ callLog'.completed =>
          \A b \in Bots :
              StaleRecord(botStatus', b, now') =>
                  botStatus'[b].status =
                      IF botStatus[b].status = "Error" THEN "Error" ELSE "Offline"]_vars

\* a ready bot whose writes failed has been forced Offline by the stale check
C24_ReadyBotForcedOffline ==
    /\ callLog.op = "heartbeat"
    /\ callLog.completed
    /\ \E b \in Bots :
          /\ ready[b]
          /\ b \in callLog.failed
          /\ StaleRecord(botStatus, b, now)
          /\ botStatus[b].status = "Offline"

\* C25: a status write that fails for one bot during a heartbeat does not propagate out
\* of the heartbeat: the round runs to its end, and every bot whose write did not fail,
\* one whose write failed in an earlier round included, has its record written in this
\* round with the status computed for it.
C25_FailedWriteIsContained ==
    [][HeartbeatStep =>
          /\ callLog'.completed
          /\ \A b \in Bots \ callLog'.failed :
                /\ MapHas(botStatus', b)
                /\ botStatus'[b].lastHeartbeat = now'
                /\ botStatus'[b].status = callLog'.reported[b]
          /\ \A b \in callLog'.failed :
                MapHas(botStatus', b) => botStatus'[b].lastHeartbeat = botStatus[b].lastHeartbeat
          /\ UNCHANGED <<commandLocks, assignments, players, cmd, pc>>]_vars

\* a heartbeat after the start in which the write for the first bot failed and the other
\* bots were written all the same
C25_OthersWrittenAfterFailure ==
    /\ callLog.op = "heartbeat"
    /\ callLog.failed = {1}
    /\ callLog.completed
    /\ now > 0
    /\ \A b \in Bots \ {1} : MapHas(botStatus, b) /\ botStatus[b].lastHeartbeat = now
    /\ MapHas(botStatus, 1) => botStatus[1].lastHeartbeat < now

\* bot b's player for guild g is destroyed in this step
Teardown(b, g) ==
    HasPlayer(b, g) /\ ~MapHas(players'[b], g)

\* C26: when a teardown path (stop command, queue-end timeout, alone-in-channel timeout,
\* voice disconnect) has destroyed a bot's player for a guild, the guild's assignment,
\* where there is one, has isActive = false.
C26_TeardownDeactivates ==
    [][\A b \in Bots, g \in Guilds :
          Teardown(b, g) /\ MapHas(assignments', g) => ~assignments'[g].isActive]_vars

\* C27: when a bot has destroyed its player for a guild (stop command, queue-end or
\* alone-in-channel timeout, voice disconnect), the lock table holds no entry for the
\* guild owned by that bot.
C27_TeardownReleasesLock ==
    [][\A b \in Bots, g \in Guilds :
          Teardown(b, g) =>
              ~(MapHas(commandLocks', g) /\ commandLocks'[g].botId = b)]_vars

\* C28: forceAssign(guildId, target) fails and leaves the assignment store unchanged
\* when target is not a bot of the cluster or is not ready; otherwise it succeeds, the
\* guild's row is owned by target with reason manual, isActive and the voice channel of
\* an existing row are unchanged (a row created by the call is inactive with no
\* channel), and every player stays as it was.
C28_ForceAssign ==
    [][Called("forceAssign") =>
          LET g == callLog'.guildId
              target == callLog'.botId
          IN  IF target \notin Bots \/ ~ready[target]
              THEN /\ ~callLog'.success
                   /\ assignments' = assignments
                   /\ players' = players
              ELSE /\ callLog'.success
                   /\ MapHas(assignments', g)
                   /\ assignments'[g].assignedBotId = target
                   /\ assignments'[g].assignmentReason = "manual"
                   /\ assignments'[g].isActive =
                          (MapHas(assignments, g) /\ assignments[g].isActive)
                   /\ assignments'[g].voiceChannelId =
                          IF MapHas(assignments, g) THEN assignments[g].voiceChannelId
                          ELSE NoChannel
                   /\ \A o \in DOMAIN assignments' \ {g} :
                          MapHas(assignments, o) /\ assignments'[o] = assignments[o]
                   /\ players' = players]_vars

\* forceAssign has moved an active row to another ready bot while the old owner's player
\* keeps running
C28_MovedUnderRunningSession ==
    /\ callLog.op = "forceAssign"
    /\ callLog.success
    /\ callLog.seq = events
    /\ MapHas(assignments, callLog.guildId)
    /\ LET row == assignments[callLog.guildId]
       IN  /\ row.assignedBotId = callLog.botId
           /\ row.assignmentReason = "manual"
           /\ row.isActive
           /\ row.previousBotId \in Bots \ {callLog.botId}
           /\ HasPlayer(row.previousBotId, callLog.guildId)

----------------------------------------------------------------------------
(* Routing and assignment while reads of the assignment store may fail *)

\* const assignment = await GuildAssignment.findById(guildId) in shouldHandleCommand,
\* the read rejecting: no try/catch encloses the await, so the promise returned by
\* shouldHandleCommand rejects and the handler of the command ends there
EvalRejects(b) ==
    /\ pc[b] = "await"
    /\ pc' = [pc EXCEPT ![b] = "threw"]
    /\ UNCHANGED <<now, commandLocks, assignments, players, pendingVoice, cmd, events,
                   delivered, lockLog, balVars>>

\* const existingAssignment = await GuildAssignment.findById(guildId) in assignBot, the
\* read rejecting: the first statement of assignBot, outside any try/catch
AssignBotRejects(guildId) ==
    /\ events < MaxEvents
    /\ events' = events + 1
    /\ callLog' = [BalanceCall("assignBot", guildId, NoBot, FALSE) EXCEPT !.threw = TRUE]
    /\ UNCHANGED <<now, commandLocks, assignments, players, pendingVoice, cmd, pc,
                   delivered, lockLog, ready, playerCount, options, botStatus>>

FaultNext ==
    \/ Deliver
    \/ \E b \in Bots : EvalSync(b)
    \/ \E b \in Bots : EvalResume(b)
    \/ \E b \in Bots : EvalRejects(b)
    \/ \E b \in Bots : Run(b)
    \/ Retire
    \/ \E g \in Guilds : AssignBot(g)
    \/ \E g \in Guilds : AssignBotRejects(g)

SpecFault == RouteInit /\ [][FaultNext]_vars

\* C29: when the read of the assignment fails during shouldHandleCommand or assignBot,
\* the operation does not raise: shouldHandleCommand still returns true or false and
\* assignBot still returns a selection or null.
C29_ReadFailureContained ==
    /\ \A b \in Bots : pc[b] # "threw"
    /\ callLog.op = "assignBot" => ~callLog.threw

----------------------------------------------------------------------------
(* Startup of the cluster *)

\* process.env as parseBotConfigs reads it: the i with BOT{i}_TOKEN set, the i with
\* BOT{i}_CLIENT_ID set, and whether TOKEN and CLIENT_ID are set
Envs ==
    [token : SUBSET Bots, clientId : SUBSET Bots, TOKEN : BOOLEAN, CLIENT_ID : BOOLEAN]

\* the outcome of client.start() for each bot: TRUE where the login succeeds
StartOutcomes == [Bots -> BOOLEAN]

RECURSIVE ParseFrom(_, _)
\* while (process.env[`BOT${i}_TOKEN`]) { if (token && clientId) bots.push(...); i++ }
ParseFrom(env, i) ==
    IF i \notin env.token
    THEN <<>>
    ELSE (IF i \in env.clientId
          THEN <<[id |-> i, token |-> TRUE, clientId |-> TRUE, isMain |-> i = 1]>>
          ELSE <<>>) \o ParseFrom(env, i + 1)

parseBotConfigs(env) ==
    LET bots == ParseFrom(env, 1)
    IN  IF Len(bots) = 0 /\ env.TOKEN
        THEN <<[id |-> 1, token |-> TRUE, clientId |-> env.CLIENT_ID, isMain |-> TRUE]>>
        ELSE bots

\* new BotClient(botConfig): the client carries the configuration's isMain flag
BotClient(botConfig) == [botId |-> botConfig.id, isMainBot |-> botConfig.isMain]

\* initializeBot(botConfig): TRUE when the client was started and put into botCluster
initializeBot(botConfig, started) ==
    IF ~botConfig.token \/ ~botConfig.clientId
    THEN FALSE
    ELSE started[botConfig.id]

\* startCluster: exit when no bot is configured or none was initialized, else the
\* cluster of the bots that were
startCluster(env, started) ==
    LET bots == parseBotConfigs(env)
        ok == {k \in 1..Len(bots) : initializeBot(bots[k], started)}
        cluster == [id \in {bots[k].id : k \in ok} |->
                       BotClient(CHOOSE c \in {bots[k] : k \in ok} : c.id = id)]
    IN  IF Len(bots) = 0
        THEN [exited |-> TRUE, botCluster |-> EmptyMap]
        ELSE IF Cardinality(ok) = 0
        THEN [exited |-> TRUE, botCluster |-> EmptyMap]
        ELSE [exited |-> FALSE, botCluster |-> cluster]

\* the process starts with some environment; each login succeeds or fails
StartCluster ==
    \E env \in Envs, started \in StartOutcomes :
        LET r == startCluster(env, started)
        IN  /\ callLog = NoCall
            /\ callLog' = [op |-> "startCluster", env |-> env, started |-> started,
                           exited |-> r.exited, botCluster |-> r.botCluster]
            /\ UNCHANGED <<now, commandLocks, assignments, players, pendingVoice, cmd, pc,
                           events, delivered, lockLog, ready, playerCount, options,
                           botStatus>>

StartupNext == StartCluster

SpecStartup == Init /\ [][StartupNext]_vars

\* C30: whenever startup has finished without exiting, the cluster holds exactly one
\* main bot, for every environment and every combination of logins that succeed and
\* fail.
C30_ExactlyOneMainBot ==
    callLog.op = "startCluster" /\ ~callLog.exited =>
        Cardinality({id \in DOMAIN callLog.botCluster :
                        callLog.botCluster[id].isMainBot}) = 1

----------------------------------------------------------------------------
(* Maintenance next to a lock table in use *)

\* lock tables the maintenance meets: empty, or an entry taken at time 0
MaintenanceLocks ==
    {EmptyMap} \cup {[g \in Guilds |-> [botId |-> b, timestamp |-> 0]] : b \in Bots}

MaintenanceInit ==
    /\ now = 0
    /\ commandLocks \in MaintenanceLocks
    /\ players \in HealthPlayers
    /\ \E store \in HealthStores :
          /\ store = EmptyMap => \A b \in Bots : players[b] = EmptyMap
          /\ assignments = releaseInactiveAssignments(store, staleThreshold, 0)
    /\ pendingVoice = [b \in Bots |-> "none"]
    /\ cmd = NoCmd
    /\ pc = [b \in Bots |-> "idle"]
    /\ events = 0
    /\ delivered = NoSnapshot
    /\ lockLog = [last |-> NoCall, win |-> EmptyMap]
    /\ ready = [b \in Bots |-> TRUE]
    /\ playerCount = Sizes
    /\ options \in HealthOptions
    /\ callLog = NoCall
    /\ botStatus = updateAll(EmptyMap, ready, Sizes, options, 0, {}).statuses

MaintenanceNext ==
    \/ HeartbeatTimer
    \/ HealthTick
    \/ Initialize

SpecMaintenance == MaintenanceInit /\ [][MaintenanceNext]_vars

\* C31: a heartbeat and a stale-assignment sweep leave the lock table as it was and
\* change nothing but assignment rows and the bots' status (the status records and the
\* cached player count).
C31_MaintenanceLeavesLocks ==
    [][HeartbeatStep \/ Called("initialize") =>
          UNCHANGED <<commandLocks, lockLog, players, pendingVoice, cmd, pc, ready,
                      options, now>>]_vars

\* a sweep has released a stale row while the lock table holds an expired entry
C31_SweptBesideLock ==
    /\ callLog.op = "initialize"
    /\ MapHas(commandLocks, "g1")
    /\ now - commandLocks["g1"].timestamp > LOCK_TIMEOUT
    /\ MapHas(assignments, "g1")
    /\ ~assignments["g1"].isActive
    /\ assignments["g1"].voiceChannelId # NoChannel

----------------------------------------------------------------------------
(* Behaviour of the balancer, the lock table and the router in detail *)

\* C32: after assignBot(guildId) has returned a bot, the guild's row is owned by that
\* bot, also when a row existed before that was inactive or owned by a bot that is not
\* ready.
C32_RowOwnedByReturnedBot ==
    [][Called("assignBot") /\ ~callLog'.threw /\ callLog'.botId # NoBot =>
          /\ MapHas(assignments', callLog'.guildId)
          /\ assignments'[callLog'.guildId].assignedBotId = callLog'.botId]_vars

\* the last lock call was made by the bot that owned an unexpired entry for the key
OwnerCalled(op) ==
    /\ lockLog.last.op = op
    /\ MapHas(lockLog.last.before, lockLog.last.guildId)
    /\ lockLog.last.before[lockLog.last.guildId].botId = lockLog.last.botId
    /\ lockLog.last.at - lockLog.last.before[lockLog.last.guildId].timestamp <= LOCK_TIMEOUT

\* C33: acquire by the bot that already owns an unexpired lock returns true and leaves
\* the table as it was, the entry's timestamp included, so the owner's repeated
\* acquisitions do not extend the lock.
C33_OwnerAcquireKeepsTimestamp ==
    OwnerCalled("acquire") =>
        /\ lockLog.last.ret
        /\ commandLocks = lockLog.last.before

\* the owner has acquired again, later than the first time, and the entry still carries
\* the first timestamp
C33_OwnerAcquiredAgainLater ==
    /\ OwnerCalled("acquire")
    /\ lockLog.last.ret
    /\ lockLog.last.at > lockLog.last.before[lockLog.last.guildId].timestamp
    /\ commandLocks[lockLog.last.guildId].timestamp
          = lockLog.last.before[lockLog.last.guildId].timestamp

\* C34: hasCommandLock(guildId, botId) returns true exactly when an entry for the guild
\* exists, is unexpired and is owned by botId; an expired entry it finds is deleted,
\* whoever owns it, and in every other case the table is left as it was.
C34_HasLock ==
    lockLog.last.op = "has" =>
        LET g == lockLog.last.guildId
            before == lockLog.last.before
            found == MapHas(before, g)
            expired == found /\ lockLog.last.at - before[g].timestamp > LOCK_TIMEOUT
        IN  /\ lockLog.last.ret = (found /\ ~expired /\ before[g].botId = lockLog.last.botId)
            /\ commandLocks =
                  IF expired
                  THEN [k \in DOMAIN before \ {g} |-> before[k]]
                  ELSE before

\* hasCommandLock has deleted the expired entry of another bot and returned false
C34_ExpiredEntryOfOtherDeleted ==
    /\ lockLog.last.op = "has"
    /\ MapHas(lockLog.last.before, lockLog.last.guildId)
    /\ lockLog.last.before[lockLog.last.guildId].botId # lockLog.last.botId
    /\ lockLog.last.at - lockLog.last.before[lockLog.last.guildId].timestamp > LOCK_TIMEOUT
    /\ ~lockLog.last.ret
    /\ ~MapHas(commandLocks, lockLog.last.guildId)

\* the call on record is an assignBot that ran _selectBot under the roundRobin strategy
RoundRobinSelection(c) ==
    /\ c.op = "assignBot"
    /\ ~c.threw
    /\ c.selected
    /\ options.strategy = "roundRobin"

\* C35: with the roundRobin strategy a selection returns a ready bot, and no ready bot
\* has fewer players at that moment than the bot returned, whichever bot is the main
\* bot.
C35_RoundRobinLeastLoaded ==
    (RoundRobinSelection(callLog) /\ callLog.botId # NoBot) =>
        /\ callLog.before.ready[callLog.botId]
        /\ \A b \in Bots :
              callLog.before.ready[b] =>
                  callLog.before.sizes[callLog.botId] <= callLog.before.sizes[b]

----------------------------------------------------------------------------
(* The order of the failover bots *)

\* the n of the failover bots bot-<n> a configuration can number
BotNumbers == 2..MaxBotNumber

\* failoverBots.sort((a, b) => a.id.localeCompare(b.id)) places bot-<a> and bot-<b>:
\* the ids share the prefix "bot-" and are ordered by their decimal digits
SortPair ==
    \E a \in BotNumbers : \E b \in BotNumbers \ {a} :
        /\ callLog' = [op |-> "localeCompare", a |-> a, b |-> b,
                       first |-> IF localeCompareLess(a, b) THEN a ELSE b]
        /\ UNCHANGED <<now, commandLocks, assignments, players, pendingVoice, cmd, pc,
                       events, delivered, lockLog, ready, playerCount, options, botStatus>>

OrderNext == SortPair

SpecOrder == Init /\ [][OrderNext]_vars

\* C36: of two failover bots bot-<a> and bot-<b> the sort places the one with the
\* smaller number first (bot-2 before bot-3, and bot-2 before bot-10).
C36_SmallerNumberFirst ==
    callLog.op = "localeCompare" =>
        callLog.first = IF callLog.a < callLog.b THEN callLog.a ELSE callLog.b

\* failover bot b takes a step of its evaluation that does not end in true
FailoverDeclines(b) ==
    /\ ~isMainBot(b)
    /\ pc[b] \in {"start", "await"}
    /\ pc'[b] \in {"false", "await"}
    /\ pc'[b] # pc[b]

\* C37: a failover bot whose evaluation of shouldHandleCommand does not return true does
\* not gain the lock by evaluating: a bot that did not own an unexpired lock for the
\* guild before does not own one after, and an unexpired lock of another bot is left
\* as it was.
C37_DecliningKeepsNoLock ==
    [][\A b \in Bots :
          FailoverDeclines(b) =>
              /\ ~Owns(commandLocks, cmd.guildId, b, now) =>
                     ~Owns(commandLocks', cmd.guildId, b, now)
              /\ HeldByOther(commandLocks, cmd.guildId, b, now) =>
                     commandLocks' = commandLocks]_vars

\* a failover bot, the first to evaluate a music command for a guild without a lock, has
\* probed the free key and returned false, and the key is free again
C37_ProbedAndReleased ==
    /\ IsMusic(cmd)
    /\ delivered.taken
    /\ ~MapHas(delivered.commandLocks, cmd.guildId)
    /\ ~MapHas(commandLocks, cmd.guildId)
    /\ \E b \in FailoverBots :
          /\ pc[b] = "false"
          /\ \A o \in Bots \ {b} : pc[o] = "start"

\* C38: while a bot keeps its player for a guild whose assignment is active, the
\* assignment stays active: the teardown, disconnect or reconnect of another session or
\* bot for the guild does not deactivate it.
C38_ActiveWhileSessionLives ==
    [][\A b \in Bots, g \in Guilds :
          (/\ HasPlayer(b, g)
           /\ MapHas(players'[b], g)
           /\ MapHas(assignments, g)
           /\ assignments[g].isActive)
          => assignments'[g].isActive]_vars

----------------------------------------------------------------------------
(* The reasons play, assignBot and forceAssign store *)

ReasonNext ==
    \/ \E b \in Bots : Run(b)
    \/ \E g \in Guilds : AssignBot(g)
    \/ \E g \in Guilds : ReleaseBot(g)
    \/ ForceAssignCall

SpecReason == StoreInit /\ [][ReasonNext]_vars

----------------------------------------------------------------------------
(* getOrCreateAssignment step by step: two awaits, other callers in between *)

\* bot b calls getOrCreateAssignment(guildId, b, clientId, 'auto') from Play.run and
\* its findById is answered: a row found is returned, else the call goes on to create
GetOrCreateLookup(b, guildId) ==
    /\ pc[b] = "idle"
    /\ pc' = [pc EXCEPT ![b] = IF findById(assignments, guildId).found
                               THEN "returned" ELSE "create"]
    /\ UNCHANGED <<now, commandLocks, assignments, players, pendingVoice, cmd, events,
                   delivered, lockLog, balVars>>

\* this.create({_id: guildId, ...}): the insert; _id is the collection's unique key, so
\* the insert of an _id that exists by now is rejected and the call rejects with it
GetOrCreateInsert(b, guildId) ==
    /\ pc[b] = "create"
    /\ IF MapHas(assignments, guildId)
       THEN /\ pc' = [pc EXCEPT ![b] = "threw"]
            /\ UNCHANGED assignments
       ELSE /\ pc' = [pc EXCEPT ![b] = "returned"]
            /\ assignments' = MapSet(assignments, guildId, NewRow(b, "auto", now))
    /\ UNCHANGED <<now, commandLocks, players, pendingVoice, cmd, events,
                   delivered, lockLog, balVars>>

\* the caller has its answer and may call again
GetOrCreateDone(b) ==
    /\ pc[b] \in {"returned", "threw"}
    /\ \A o \in Bots : pc[o] # "create"
    /\ pc' = [pc EXCEPT ![b] = "idle"]
    /\ UNCHANGED <<now, commandLocks, assignments, players, pendingVoice, cmd, events,
                   delivered, lockLog, balVars>>

RaceNext ==
    \/ \E b \in Bots, g \in Guilds : GetOrCreateLookup(b, g)
    \/ \E b \in Bots, g \in Guilds : GetOrCreateInsert(b, g)
    \/ \E b \in Bots : GetOrCreateDone(b)
    \/ Tick
    \/ \E g \in Guilds, c \in Channels : Activate(g, c)
    \/ \E g \in Guilds : Deactivate(g)

SpecRace == Init /\ [][RaceNext]_vars

\* C40: two getOrCreateAssignment calls for a guild without a row, both having looked
\* up before either has created, both complete without an error (and return the one
\* row created first).
C40_ConcurrentCreateCompletes ==
    \A b \in Bots : pc[b] # "threw"

====
